---- MODULE Spec2Model ----
(***************************************************************************)
(* The import orchestrator of influxdata/import/import.py: one run         *)
(* (import_id) whose tables are imported window by window by start_import  *)
(* or resume_import, while pause_import / cancel_import requests flip the  *)
(* flag record that the import loop polls before every window.             *)
(*                                                                         *)
(* Time is counted in ticks of one microsecond, the resolution of the      *)
(* datetime values the loop computes with; source rows lie on that grid.   *)
(* The local store (import_state, import_pause_state, import_config) is    *)
(* taken to accept every write and answer every query; the source query    *)
(* and the destination data write of a window may fail, as the loop's own  *)
(* error branches provide for.  Start and resume invocations of one run    *)
(* do not overlap, except under SpecOverlap; pause and cancel requests     *)
(* run concurrently with them and with each other, each as a read step     *)
(* followed by a write step.                                               *)
(***************************************************************************)
EXTENDS Integers, Sequences, FiniteSets, TLC

\* ---------------------------------------------------------------- bounds
MaxTime == 3
MaxWindow == 2
MaxResumes == 1
MaxErrors == 1

\* ------------------------------------------------------------- constants
MICROSECOND_OFFSET == 1

NoTime == 0 - 1
Times == 0..MaxTime

\* get_source_measurements returns the table names sorted
measurements == <<"cpu", "mem">>
Tables == {measurements[i] : i \in 1..Len(measurements)}

\* the second table holds one row, at the first tick
MemRows == {{0}}

Directions == {"oldest_first", "newest_first"}

\* ImportConfig: the fields the import loop reads
Ranges == {<<NoTime, NoTime>>, <<1, MaxTime - 1>>}
\* values of source_token (source_username / source_password travel with it)
Tokens == {"tokenA", "tokenB"}

Configs ==
    {[import_direction |-> d, start_timestamp |-> r[1], end_timestamp |-> r[2],
      source_token |-> t] :
        d \in Directions, r \in Ranges, t \in Tokens}

VARIABLES
    source,              \* source database: table -> set of row timestamps
    credentials,         \* source_token the start / the resume request carries
    dest,                \* destination: table -> timestamp -> rows written
    import_config,       \* 'import_config' series (append-only)
    import_pause_state,  \* 'import_pause_state' series (append-only)
    import_state,        \* 'import_state' series (append-only)
    pc,                  \* position of the start/resume invocation
    mode,                \* "start" | "resume": which orchestrator loop runs
    config,              \* the invocation's ImportConfig
    idx,                 \* index into measurements of the orchestrator loop
    tbl,                 \* locals of import_table
    table_result,        \* value import_table returned
    orch,                \* total_rows, completed_tables, all_errors
    tables_to_resume,    \* resume_incomplete_import's classification
    report,              \* what the last start/resume invocation returned
    pausePc,             \* position of a pause_import request
    cancelPc,            \* position of a cancel_import request
    resumes,             \* resume_import requests that wrote a flag record
    nqueries,            \* window queries sent to the source so far
    nwrites,             \* data batches sent to the destination so far
    nerrors,             \* windows of the run that failed so far
    imported_before,     \* table -> timestamps written by earlier invocations
    call                 \* one call of a helper: its arguments, locals, result

vars == <<source, credentials, call, dest, import_config, import_pause_state, import_state, pc,
          mode, config, idx, tbl, table_result, orch, tables_to_resume,
          report, pausePc, cancelPc, resumes, nqueries, nwrites, nerrors,
          imported_before>>

storeVars == <<import_config, import_pause_state, import_state>>
opVars == <<pausePc, cancelPc>>
ghostVars == <<nqueries, nwrites, nerrors, imported_before>>

\* ---------------------------------------------------------------- helpers
Max(S) == CHOOSE x \in S : \A y \in S : y <= x
Min(S) == CHOOSE x \in S : \A y \in S : x <= y

NoResult == [fetched |-> FALSE, times |-> {}]

\* Rows a window query "time >= lo AND time <= hi" returns
window_rows(t, lo, hi) == {r \in source[t] : lo <= r /\ r <= hi}

\* The /query request carries only db and q (no epoch parameter), so the
\* "time" column is RFC3339 text, which is what find_actual_data_boundaries
\* parses with .replace("Z", ...).
TimeColumnIsNumber == FALSE

\* find_actual_data_boundaries: first row and last row + 1 tick inside the
\* user range (either bound may be absent); <<NoTime, NoTime>> without data
find_actual_data_boundaries(t, user_start, user_end) ==
    LET sel == {r \in source[t] :
                    /\ (user_start = NoTime \/ r >= user_start)
                    /\ (user_end = NoTime \/ r <= user_end)}
    IN  IF sel = {} \/ TimeColumnIsNumber
        THEN <<NoTime, NoTime>>
        ELSE <<Min(sel), Max(sel) + MICROSECOND_OFFSET>>

\* (mutant) the paused field is looked at before the canceled field
check_pause_state_paused_first ==
    IF Len(import_pause_state) = 0 THEN "running"
    ELSE LET row == import_pause_state[Len(import_pause_state)]
         IN  IF row.paused THEN "paused"
             ELSE IF row.canceled THEN "cancelled"
             ELSE "running"

\* (mutant) the loop does not see the flag
check_pause_state_blind == "running"

\* check_pause_state: latest flag record, canceled before paused
check_pause_state ==
    IF Len(import_pause_state) = 0 THEN "running"
    ELSE LET row == import_pause_state[Len(import_pause_state)]
         IN  IF row.canceled THEN "cancelled"
             ELSE IF row.paused THEN "paused"
             ELSE "running"

\* get_import_pause_state: the same read, for the request handlers
get_import_pause_state ==
    IF Len(import_pause_state) = 0 THEN "not_found"
    ELSE LET row == import_pause_state[Len(import_pause_state)]
         IN  IF row.canceled THEN "cancelled"
             ELSE IF row.paused THEN "paused"
             ELSE "running"

\* write_import_state: one checkpoint record appended to import_state
write_import_state(log, t, status, rows, paused_at) ==
    Append(log, [table_name |-> t, status |-> status,
                 rows_imported |-> rows, paused_at_time |-> paused_at])

\* "ORDER BY time DESC", first row per table: index of the latest record
latest_index(log, t) ==
    LET S == {i \in 1..Len(log) : log[i].table_name = t}
    IN  IF S = {} THEN 0 ELSE Max(S)

NoRecord == [table_name |-> "", status |-> "", rows_imported |-> 0,
             paused_at_time |-> NoTime]

latest_state(log, t) ==
    IF latest_index(log, t) = 0 THEN NoRecord ELSE log[latest_index(log, t)]

\* The resume cursor a paused checkpoint stores: the loop cursor, replaced
\* by the largest time of the last fetched result when that can be
\* converted with max_time_ns / 1e9 (a number); with text times the
\* division raises, the except branch logs, and the default stays.
paused_at_time(current_time, result) ==
    IF result.fetched /\ result.times # {} /\ TimeColumnIsNumber
    THEN Max(result.times)
    ELSE current_time

NewTbl == [measurement |-> "", user_start |-> NoTime, actual_start |-> NoTime,
           actual_end |-> NoTime, window |-> 1, current_time |-> NoTime,
           rows_imported |-> 0, errors |-> <<>>, result |-> NoResult,
           mark |-> 0, dest_mark |-> 0, written |-> {}, requeried |-> FALSE]

NoTableResult == [measurement |-> "", status |-> "", rows_imported |-> 0,
                  errors |-> <<>>]

NewOrch == [total_rows |-> 0, completed_tables |-> 0, all_errors |-> <<>>]

NoReport == [op |-> "", status |-> "", rows_imported |-> 0, on_table |-> ""]

NoPlan == [m \in Tables |-> [kind |-> "other", ts |-> NoTime, rows |-> 0]]

\* no helper call is being followed
NoCall == [fn |-> "none"]

\* ------------------------------------------------------------------- Init
InitAnyCredentials ==
    /\ source \in {s \in [Tables -> SUBSET Times] : s["mem"] \in MemRows}
    /\ credentials \in [start : Tokens, resume : Tokens]
    /\ dest = [m \in Tables |-> [x \in Times |-> 0]]
    /\ import_config = <<>>
    /\ import_pause_state = <<>>
    /\ import_state = <<>>
    /\ pc = "none"
    /\ mode = "start"
    /\ config \in {c \in Configs : c.source_token = credentials.start}
    /\ idx = 1
    /\ tbl = NewTbl
    /\ table_result = NoTableResult
    /\ orch = NewOrch
    /\ tables_to_resume = NoPlan
    /\ report = NoReport
    /\ pausePc = "idle"
    /\ cancelPc = "idle"
    /\ resumes = 0
    /\ nqueries = 0
    /\ nwrites = 0
    /\ nerrors = 0
    /\ imported_before = [m \in Tables |-> {}]

\* the start request carries one token, the resume request another
Init ==
    /\ InitAnyCredentials
    /\ credentials = [start |-> "tokenA", resume |-> "tokenB"]
    /\ call = NoCall

\* (mutant) no initial checkpoint is written
pending_states_skipped(log) == log

\* ------------------------------------------------------------ start_import
\* start_import up to its table loop: save the configuration, write the
\* default flag record and a 'pending' checkpoint per table
pending_states(log) ==
    LET RECURSIVE add(_, _)
        add(l, i) == IF i > Len(measurements) THEN l
                     ELSE add(write_import_state(l, measurements[i],
                                                 "pending", 0, NoTime), i + 1)
    IN  add(log, 1)

\* (mutant) the whole configuration is stored
save_import_config_all_fields(c) == c

\* save_import_config: the fields written to 'import_config'
save_import_config(c) ==
    [import_direction |-> c.import_direction,
     start_timestamp |-> c.start_timestamp,
     end_timestamp |-> c.end_timestamp]

\* load_import_config: the stored fields and the caller's credentials
load_import_config(row, source_token) ==
    [import_direction |-> row.import_direction,
     start_timestamp |-> row.start_timestamp,
     end_timestamp |-> row.end_timestamp,
     source_token |-> source_token]

\* (mutant) the configuration and the flag record are written in any mode
not_dry_run_ignored(dry_run) == TRUE

\* "if not config.dry_run:" guards the configuration and flag writes
not_dry_run(dry_run) == ~dry_run

\* start_import up to its table loop. A dry run does the pre-flight checks
\* and the estimate (source queries only) and returns the plan before the
\* 'pending' checkpoints are written.
start_import(dry_run) ==
    /\ pc = "none"
    /\ import_config' = IF not_dry_run(dry_run)
                        THEN Append(import_config, save_import_config(config))
                        ELSE import_config
    /\ import_pause_state' =
           IF not_dry_run(dry_run)
           THEN Append(import_pause_state, [paused |-> FALSE, canceled |-> FALSE])
           ELSE import_pause_state
    /\ IF dry_run
       THEN /\ report' = [op |-> "start", status |-> "dry_run_plan",
                          rows_imported |-> 0, on_table |-> ""]
            /\ UNCHANGED <<import_state, mode, idx, orch, pc>>
       ELSE /\ import_state' = pending_states(import_state)
            /\ mode' = "start"
            /\ idx' = 1
            /\ orch' = NewOrch
            /\ pc' = "next_table"
            /\ UNCHANGED report
    /\ UNCHANGED <<source, credentials, call, dest, config, tbl, table_result, tables_to_resume,
                   resumes>>
    /\ UNCHANGED opVars
    /\ UNCHANGED ghostVars

StartImport == start_import(FALSE)

\* start with dry_run set
StartDryRun == start_import(TRUE)

\* ------------------------------------------------------------ import_table
direction == IF config.import_direction = "oldest_first" THEN 1 ELSE 0 - 1

\* total number of rows written to a table of the destination
RECURSIVE sum_upto(_, _)
sum_upto(f, n) == IF n < 0 THEN 0 ELSE f[n] + sum_upto(f, n - 1)
rows_in_dest(m) == sum_upto(dest[m], MaxTime)

\* sample_data_density: the window widths it can return for the range, a
\* whole number >= 1 that depends on the sampled density; a width beyond
\* the range acts as the width of the range
sample_data_density(m, start_time, end_time) ==
    LET b == find_actual_data_boundaries(m, start_time, end_time)
    IN  IF b[1] = NoTime THEN {1}
        ELSE {w \in 1..MaxWindow : w <= b[2] - b[1]}

\* import_table from its call to the top of the loop: boundaries, window
\* width (sample_data_density's result, any width of the range), cursor
import_table_begin(m, start_time, end_time, w) ==
    LET b == find_actual_data_boundaries(m, start_time, end_time)
        actual_start == b[1]
        actual_end == IF b[1] = b[2] THEN b[2] + MICROSECOND_OFFSET ELSE b[2]
    IN  IF b[1] = NoTime \/ b[2] = NoTime
        THEN /\ table_result' = [measurement |-> m, status |-> "completed",
                                 rows_imported |-> 0, errors |-> <<>>]
             /\ tbl' = [NewTbl EXCEPT !.measurement = m,
                                      !.user_start = start_time,
                                      !.mark = Len(import_state),
                                      !.dest_mark = rows_in_dest(m)]
             /\ pc' = "table_done"
        ELSE /\ tbl' = [NewTbl EXCEPT
                          !.measurement = m,
                          !.user_start = start_time,
                          !.actual_start = actual_start,
                          !.actual_end = actual_end,
                          !.window = w,
                          !.current_time = IF direction > 0 THEN actual_start
                                           ELSE actual_end,
                          !.mark = Len(import_state),
                          !.dest_mark = rows_in_dest(m)]
             /\ pc' = "poll"
             /\ UNCHANGED table_result

\* The loop's first statement: read the flag and branch on it
Poll ==
    /\ pc = "poll"
    /\ pc' = CASE check_pause_state = "cancelled" -> "cancelled"
               [] check_pause_state = "paused" -> "paused"
               [] OTHER -> "window"
    /\ UNCHANGED <<source, credentials, call, dest, mode, config, idx, tbl, table_result, orch,
                   tables_to_resume, report, resumes>>
    /\ UNCHANGED storeVars
    /\ UNCHANGED opVars
    /\ UNCHANGED ghostVars

\* pause_state == "cancelled": checkpoint and return
Cancelled ==
    /\ pc = "cancelled"
    /\ import_state' = write_import_state(import_state, tbl.measurement,
                                          "cancelled", tbl.rows_imported, NoTime)
    /\ table_result' = [measurement |-> tbl.measurement,
                        status |-> "cancelled",
                        rows_imported |-> tbl.rows_imported,
                        errors |-> tbl.errors]
    /\ pc' = "table_done"
    /\ UNCHANGED <<source, credentials, call, dest, import_config, import_pause_state, mode,
                   config, idx, tbl, orch, tables_to_resume, report, resumes>>
    /\ UNCHANGED opVars
    /\ UNCHANGED ghostVars

\* pause_state == "paused": checkpoint with the resume cursor and return
Paused ==
    /\ pc = "paused"
    /\ import_state' =
           write_import_state(import_state, tbl.measurement, "paused",
                              tbl.rows_imported,
                              paused_at_time(tbl.current_time, tbl.result))
    /\ table_result' = [measurement |-> tbl.measurement,
                        status |-> "paused",
                        rows_imported |-> tbl.rows_imported,
                        errors |-> tbl.errors]
    /\ pc' = "table_done"
    /\ UNCHANGED <<source, credentials, call, dest, import_config, import_pause_state, mode,
                   config, idx, tbl, orch, tables_to_resume, report, resumes>>
    /\ UNCHANGED opVars
    /\ UNCHANGED ghostVars

\* "Calculate window": bounds of the next window, clamped to the range
window_start(t) ==
    IF direction > 0 THEN t.current_time
    ELSE IF t.current_time - t.window < t.actual_start THEN t.actual_start
         ELSE t.current_time - t.window

window_end(t) ==
    IF direction > 0
    THEN IF t.current_time + t.window > t.actual_end THEN t.actual_end
         ELSE t.current_time + t.window
    ELSE t.current_time

\* (mutant) the cursor is left where it was
next_time_stuck(t) == t.current_time

\* "Move to next window": the cursor after a window
next_time(t) == IF direction > 0 THEN window_end(t) ELSE window_start(t)

\* (mutant) the loop does not leave at the far boundary
loop_exits_never(t) == FALSE

\* the break after "Move to next window"
loop_exits(t) ==
    IF direction > 0 THEN next_time(t) >= t.actual_end
    ELSE next_time(t) <= t.actual_start

\* (mutant) the checkpoint is written before the counter is updated
progress_checkpoint_stale(log, m, rows_imported, n) ==
    write_import_state(log, m, "in_progress", rows_imported, NoTime)

\* "rows_imported += len(line_protocol)" followed by the in_progress
\* checkpoint that carries the updated counter
progress_checkpoint(log, m, rows_imported, n) ==
    write_import_state(log, m, "in_progress", rows_imported + n, NoTime)

add_rows(d, m, rows) ==
    [d EXCEPT ![m] = [x \in Times |-> IF x \in rows THEN d[m][x] + 1
                                      ELSE d[m][x]]]

\* One pass of the loop body after the poll: query the window, write it,
\* checkpoint, advance; on loop exit the 'completed' checkpoint and return.
\* outcome: "ok", "query_error" (the query raised after its retries) or
\* "write_error" (write_to_destination returned success = False).
Window ==
    /\ pc = "window"
    /\ \E outcome \in {"ok", "query_error", "write_error"} :
        LET m == tbl.measurement
            ws == window_start(tbl)
            we == window_end(tbl)
            rows == window_rows(m, ws, we)
            wrote == outcome = "ok" /\ rows # {}
            rows_imported == IF wrote THEN tbl.rows_imported + Cardinality(rows)
                             ELSE tbl.rows_imported
            errors == IF outcome = "ok" THEN tbl.errors
                      ELSE Append(tbl.errors, <<ws, we>>)
            log1 == IF wrote
                    THEN progress_checkpoint(import_state, m, tbl.rows_imported,
                                             Cardinality(rows))
                    ELSE import_state
            exits == outcome # "query_error" /\ loop_exits(tbl)
        IN  /\ outcome # "ok" => nerrors < MaxErrors
            /\ nerrors' = IF outcome = "ok" THEN nerrors ELSE nerrors + 1
            /\ outcome = "write_error" => rows # {}
            /\ nqueries' = nqueries + 1
            /\ nwrites' = IF outcome # "query_error" /\ rows # {}
                          THEN nwrites + 1 ELSE nwrites
            /\ dest' = IF wrote THEN add_rows(dest, m, rows) ELSE dest
            /\ tbl' = [tbl EXCEPT
                         !.result = IF outcome = "query_error" THEN @
                                    ELSE [fetched |-> TRUE, times |-> rows],
                         !.rows_imported = rows_imported,
                         !.errors = errors,
                         !.current_time = next_time(tbl),
                         !.written = IF wrote THEN @ \cup rows ELSE @,
                         !.requeried = @ \/ (outcome # "query_error" /\
                                             rows \cap imported_before[m] # {})]
            /\ IF exits
               THEN /\ import_state' = write_import_state(log1, m, "completed",
                                                          rows_imported, NoTime)
                    /\ table_result' = [measurement |-> m,
                                        status |-> "completed",
                                        rows_imported |-> rows_imported,
                                        errors |-> errors]
                    /\ pc' = "table_done"
               ELSE /\ import_state' = log1
                    /\ pc' = "poll"
                    /\ UNCHANGED table_result
    /\ UNCHANGED <<source, credentials, call, import_config, import_pause_state, mode, config,
                   idx, orch, tables_to_resume, report, resumes,
                   imported_before>>
    /\ UNCHANGED opVars

\* ------------------------------------------------- the orchestrators' loops
\* start_import's loop: call import_table for the next table
StartNextTable ==
    /\ pc = "next_table"
    /\ mode = "start"
    /\ idx <= Len(measurements)
    /\ \E w \in sample_data_density(measurements[idx], config.start_timestamp,
                                     config.end_timestamp) :
           import_table_begin(measurements[idx], config.start_timestamp,
                              config.end_timestamp, w)
    /\ UNCHANGED <<source, credentials, call, dest, mode, config, idx, orch, tables_to_resume,
                   report, resumes>>
    /\ UNCHANGED storeVars
    /\ UNCHANGED opVars
    /\ UNCHANGED ghostVars

\* (mutant) only a cancelled table stops the loop
start_stops_on_cancel_only(status) == status = "cancelled"

\* start_import stops at the first table that returns one of these
start_stops_on(status) == status \in {"cancelled", "paused"}

\* start_import after import_table returned
StartTableDone ==
    /\ pc = "table_done"
    /\ mode = "start"
    /\ imported_before' =
           [imported_before EXCEPT ![tbl.measurement] = @ \cup tbl.written]
    /\ IF table_result.status = "completed"
       THEN /\ orch' = [total_rows |-> orch.total_rows + table_result.rows_imported,
                        completed_tables |-> orch.completed_tables + 1,
                        all_errors |-> orch.all_errors \o table_result.errors]
            /\ idx' = idx + 1
            /\ pc' = "next_table"
            /\ UNCHANGED report
       ELSE IF start_stops_on(table_result.status)
       THEN /\ orch' = [orch EXCEPT !.total_rows = @ + table_result.rows_imported]
            /\ report' = [op |-> "start", status |-> table_result.status,
                          rows_imported |-> orch.total_rows + table_result.rows_imported,
                          on_table |-> table_result.measurement]
            /\ pc' = "idle"
            /\ UNCHANGED idx
       ELSE /\ orch' = [orch EXCEPT !.all_errors = @ \o table_result.errors]
            /\ idx' = idx + 1
            /\ pc' = "next_table"
            /\ UNCHANGED report
    /\ UNCHANGED <<source, credentials, call, dest, mode, config, tbl, table_result,
                   tables_to_resume, resumes, nqueries, nwrites, nerrors>>
    /\ UNCHANGED storeVars
    /\ UNCHANGED opVars

\* Both loops, all tables done: the final report
FinishRun ==
    /\ pc = "next_table"
    /\ idx > Len(measurements)
    /\ report' = [op |-> mode,
                  status |-> IF mode = "start" THEN "completed"
                             ELSE "resumed_and_completed",
                  rows_imported |-> orch.total_rows,
                  on_table |-> ""]
    /\ pc' = "idle"
    /\ UNCHANGED <<source, credentials, call, dest, mode, config, idx, tbl, table_result, orch,
                   tables_to_resume, resumes>>
    /\ UNCHANGED storeVars
    /\ UNCHANGED opVars
    /\ UNCHANGED ghostVars

\* ------------------------------------------------------------ resume_import
\* resume_import's "non_completed_tables": tables whose latest checkpoint
\* is neither completed nor cancelled (the 'all' marker is not a table)
non_completed_tables(log) ==
    {m \in Tables : /\ latest_index(log, m) # 0
                    /\ latest_state(log, m).status \notin {"completed", "cancelled"}}

\* resume_import's "incomplete_tables": latest checkpoint paused/in_progress
incomplete_tables(log) ==
    {m \in Tables : latest_state(log, m).status \in {"paused", "in_progress"}}

\* (mutant) no table is recognised as incomplete
resume_plan_forgets(log) ==
    [m \in Tables |-> [kind |-> "other", ts |-> NoTime, rows |-> 0]]

\* resume_incomplete_import's classification of the incomplete tables
resume_plan(log) ==
    [m \in Tables |->
        IF m \notin incomplete_tables(log)
        THEN [kind |-> "other", ts |-> NoTime, rows |-> 0]
        ELSE IF latest_state(log, m).paused_at_time = NoTime
        THEN [kind |-> "restart", ts |-> NoTime, rows |-> 0]
        ELSE [kind |-> "resume",
              ts |-> latest_state(log, m).paused_at_time,
              rows |-> latest_state(log, m).rows_imported]]

\* (mutant) the checkpoint timestamp itself is the new start
resume_start_no_offset(ts) == ts

\* "Add small offset to avoid re-importing the last record"
resume_start(ts) == ts + MICROSECOND_OFFSET

\* (mutant) resume_import leaves the paused field set
resume_record_still_paused == [paused |-> TRUE, canceled |-> FALSE]

\* "Write resume state (unpause the import)": the record resume_import writes
resume_record == [paused |-> FALSE, canceled |-> FALSE]

\* resume_import up to the table loop of resume_incomplete_import: check
\* the flag and the checkpoints, write the un-paused flag record, load the
\* saved configuration, classify the tables
resume_import ==
    /\ resumes < MaxResumes
    /\ IF get_import_pause_state # "paused" \/ non_completed_tables(import_state) = {}
       THEN /\ report' = [op |-> "resume", status |-> "error",
                          rows_imported |-> 0, on_table |-> ""]
            /\ UNCHANGED <<import_pause_state, pc, mode, config, idx, orch,
                           tables_to_resume, resumes>>
       ELSE /\ import_pause_state' =
                   Append(import_pause_state, resume_record)
            /\ IF incomplete_tables(import_state) = {}
               THEN /\ report' = [op |-> "resume", status |-> "error",
                                  rows_imported |-> 0, on_table |-> ""]
                    /\ resumes' = resumes + 1
                    /\ UNCHANGED <<pc, mode, config, idx, orch,
                                   tables_to_resume>>
               ELSE /\ config' = load_import_config(
                                      import_config[Len(import_config)],
                                      credentials.resume)
                    /\ tables_to_resume' = resume_plan(import_state)
                    /\ mode' = "resume"
                    /\ idx' = 1
                    /\ orch' = NewOrch
                    /\ resumes' = resumes + 1
                    /\ pc' = "next_table"
                    /\ UNCHANGED report
    /\ UNCHANGED <<source, credentials, call, dest, import_config, import_state, tbl,
                   table_result>>
    /\ UNCHANGED opVars
    /\ UNCHANGED ghostVars

\* a resume request for the run once its start invocation has returned
ResumeImport ==
    /\ pc = "idle"
    /\ resume_import

\* a resume request that names a run no start has created
ResumeUnknownRun ==
    /\ pc = "none"
    /\ resume_import

\* (mutant) no table is taken as already completed
already_completed_never(log, m) == FALSE

\* "Check if already completed": the table's latest checkpoint, read when
\* the loop reaches a table that is neither restarted nor resumed
already_completed(log, m) == latest_state(log, m).status = "completed"

\* resume_incomplete_import's loop: a table to restart, to resume from its
\* checkpoint, or (neither) to import from the beginning unless completed
ResumeNextTable ==
    /\ pc = "next_table"
    /\ mode = "resume"
    /\ idx <= Len(measurements)
    /\ LET m == measurements[idx]
           plan == tables_to_resume[m]
       IN  IF plan.kind = "other" /\ already_completed(import_state, m)
           THEN /\ orch' = [orch EXCEPT !.completed_tables = @ + 1]
                /\ idx' = idx + 1
                /\ UNCHANGED <<pc, tbl, table_result>>
           ELSE /\ LET start_time == IF plan.kind = "resume"
                                      THEN resume_start(plan.ts)
                                      ELSE config.start_timestamp
                   IN  \E w \in sample_data_density(m, start_time,
                                                     config.end_timestamp) :
                           import_table_begin(m, start_time,
                                              config.end_timestamp, w)
                /\ orch' = [orch EXCEPT !.total_rows =
                                IF plan.kind = "resume" THEN @ + plan.rows ELSE @]
                /\ UNCHANGED idx
    /\ UNCHANGED <<source, credentials, call, dest, mode, config, tables_to_resume, report,
                   resumes>>
    /\ UNCHANGED storeVars
    /\ UNCHANGED opVars
    /\ UNCHANGED ghostVars

\* resume_incomplete_import after import_table returned: only 'completed'
\* is counted, and the loop goes on to the next table whatever the status
ResumeTableDone ==
    /\ pc = "table_done"
    /\ mode = "resume"
    /\ imported_before' =
           [imported_before EXCEPT ![tbl.measurement] = @ \cup tbl.written]
    /\ orch' = [total_rows |-> IF table_result.status = "completed"
                               THEN orch.total_rows + table_result.rows_imported
                               ELSE orch.total_rows,
                completed_tables |-> IF table_result.status = "completed"
                                     THEN orch.completed_tables + 1
                                     ELSE orch.completed_tables,
                all_errors |-> orch.all_errors \o table_result.errors]
    /\ idx' = idx + 1
    /\ pc' = "next_table"
    /\ UNCHANGED <<source, credentials, call, dest, mode, config, tbl, table_result,
                   tables_to_resume, report, resumes, nqueries, nwrites,
                   nerrors>>
    /\ UNCHANGED storeVars
    /\ UNCHANGED opVars

\* ------------------------------------------------- pause_import, cancel_import
\* (mutant) pause_import refuses only a run that is not found
pause_import_accepts_found == get_import_pause_state # "not_found"

\* pause_import goes on to write only when the flag reads running
pause_import_accepts == get_import_pause_state = "running"

\* cancel_import goes on to write unless the flag is not found or cancelled
cancel_import_accepts == get_import_pause_state \notin {"not_found", "cancelled"}

\* the record pause_import writes
pause_record == [paused |-> TRUE, canceled |-> FALSE]

\* the record cancel_import writes
cancel_record == [paused |-> TRUE, canceled |-> TRUE]

\* the 'all' marker cancel_import adds to import_state
cancel_marker == [table_name |-> "all", status |-> "cancelled",
                  rows_imported |-> 0, paused_at_time |-> NoTime]

\* pause_import with no other request in between its read and its write
PauseImport ==
    /\ pausePc = "idle"
    /\ cancelPc = "idle"
    /\ pause_import_accepts
    /\ import_pause_state' = Append(import_pause_state, pause_record)
    /\ UNCHANGED <<source, credentials, call, dest, import_config, import_state, pc, mode,
                   config, idx, tbl, table_result, orch, tables_to_resume,
                   report, resumes>>
    /\ UNCHANGED opVars
    /\ UNCHANGED ghostVars

\* cancel_import with no other request in between its read and its writes
CancelImport ==
    /\ pausePc = "idle"
    /\ cancelPc = "idle"
    /\ cancel_import_accepts
    /\ import_pause_state' = Append(import_pause_state, cancel_record)
    /\ import_state' = Append(import_state, cancel_marker)
    /\ UNCHANGED <<source, credentials, call, dest, import_config, pc, mode, config, idx, tbl,
                   table_result, orch, tables_to_resume, report, resumes>>
    /\ UNCHANGED opVars
    /\ UNCHANGED ghostVars

\* pause_import, first half: read the flag; unless it reads running the
\* request returns an error ("rejected")
PauseRead ==
    /\ pausePc = "idle"
    /\ pausePc' = IF pause_import_accepts THEN "write" ELSE "rejected"
    /\ UNCHANGED <<source, credentials, call, dest, pc, mode, config, idx, tbl, table_result,
                   orch, tables_to_resume, report, resumes, cancelPc>>
    /\ UNCHANGED storeVars
    /\ UNCHANGED ghostVars

\* pause_import, second half: write paused=True, canceled=False and return
PauseWrite ==
    /\ pausePc = "write"
    /\ import_pause_state' = Append(import_pause_state, pause_record)
    /\ pausePc' = "done"
    /\ UNCHANGED <<source, credentials, call, dest, import_config, import_state, pc, mode,
                   config, idx, tbl, table_result, orch, tables_to_resume,
                   report, resumes, cancelPc>>
    /\ UNCHANGED ghostVars

\* cancel_import, first half: read the flag
CancelRead ==
    /\ cancelPc = "idle"
    /\ cancelPc' = IF cancel_import_accepts THEN "write" ELSE "rejected"
    /\ UNCHANGED <<source, credentials, call, dest, pc, mode, config, idx, tbl, table_result,
                   orch, tables_to_resume, report, resumes, pausePc>>
    /\ UNCHANGED storeVars
    /\ UNCHANGED ghostVars

\* cancel_import, second half: write paused=True, canceled=True and the
\* 'all' marker record with status cancelled, and return
CancelWrite ==
    /\ cancelPc = "write"
    /\ import_pause_state' = Append(import_pause_state, cancel_record)
    /\ import_state' = Append(import_state, cancel_marker)
    /\ cancelPc' = "done"
    /\ UNCHANGED <<source, credentials, call, dest, import_config, pc, mode, config, idx, tbl,
                   table_result, orch, tables_to_resume, report, resumes,
                   pausePc>>
    /\ UNCHANGED ghostVars

\* pause_import as one step, error return included; pausePc keeps how the
\* last pause request returned
PauseRequest ==
    /\ IF pause_import_accepts
       THEN /\ import_pause_state' = Append(import_pause_state, pause_record)
            /\ pausePc' = "done"
       ELSE /\ pausePc' = "rejected"
            /\ UNCHANGED import_pause_state
    /\ UNCHANGED <<source, credentials, call, dest, import_config, import_state, pc, mode,
                   config, idx, tbl, table_result, orch, tables_to_resume,
                   report, resumes, cancelPc>>
    /\ UNCHANGED ghostVars

\* cancel_import as one step, error return included; cancelPc keeps how the
\* last cancel request returned
CancelRequest ==
    /\ IF cancel_import_accepts
       THEN /\ import_pause_state' = Append(import_pause_state, cancel_record)
            /\ import_state' = Append(import_state, cancel_marker)
            /\ cancelPc' = "done"
       ELSE /\ cancelPc' = "rejected"
            /\ UNCHANGED <<import_pause_state, import_state>>
    /\ UNCHANGED <<source, credentials, call, dest, import_config, pc, mode, config, idx, tbl,
                   table_result, orch, tables_to_resume, report, resumes,
                   pausePc>>
    /\ UNCHANGED ghostVars

\* The process running the start invocation dies between two steps
\* of the import: the invocation and its locals are gone, what it wrote
\* stays
Crash ==
    /\ mode = "start"
    /\ pc \in {"next_table", "poll", "window", "paused", "cancelled",
               "table_done"}
    /\ pc' = "idle"
    /\ idx' = 1
    /\ tbl' = NewTbl
    /\ table_result' = NoTableResult
    /\ orch' = NewOrch
    /\ imported_before' =
           [imported_before EXCEPT ![tbl.measurement] =
                IF tbl.measurement \in Tables THEN @ \cup tbl.written ELSE @]
    /\ UNCHANGED <<source, credentials, call, dest, mode, config, tables_to_resume,
                   report, resumes, nqueries, nwrites, nerrors>>
    /\ UNCHANGED storeVars
    /\ UNCHANGED opVars

\* ------------------------------------------------------------ specification
\* The import loop and the orchestrators
Runner ==
    \/ StartImport
    \/ StartNextTable
    \/ StartTableDone
    \/ FinishRun
    \/ Poll
    \/ Cancelled
    \/ Paused
    \/ Window
    \/ ResumeImport
    \/ ResumeNextTable
    \/ ResumeTableDone

\* Requests of one operator at a time
Next ==
    \/ Runner
    \/ PauseImport
    \/ CancelImport

Spec == Init /\ [][Next]_vars

\* One pause request and one cancel request from two operators, their
\* read and write steps interleaved with each other and with the import
NextRace ==
    \/ Runner
    \/ PauseRead
    \/ PauseWrite
    \/ CancelRead
    \/ CancelWrite

InitRace ==
    /\ Init
    /\ source = [m \in Tables |-> IF m = "cpu" THEN Times ELSE {0}]
    /\ config.start_timestamp = NoTime

SpecRace == InitRace /\ [][NextRace]_vars

\* The run under every pair of credentials of the start and resume requests
InitCredentials ==
    /\ InitAnyCredentials
    /\ call = NoCall
    /\ source = [m \in Tables |-> IF m = "cpu" THEN Times ELSE {0}]
    /\ config.start_timestamp = NoTime

SpecCredentials == InitCredentials /\ [][Next]_vars

\* The run with process restarts
NextCrash ==
    \/ Next
    \/ Crash

InitCrash ==
    /\ Init
    /\ source = [m \in Tables |-> IF m = "cpu" THEN Times ELSE {0}]

SpecCrash == InitCrash /\ [][NextCrash]_vars

\* Requests one after another, each running its whole handler (rejections
\* included) between two steps of the import
NextRequests ==
    \/ Runner
    \/ StartDryRun
    \/ ResumeUnknownRun
    \/ PauseRequest
    \/ CancelRequest

SpecRequests == InitRace /\ [][NextRequests]_vars

\* ======================================================== helper functions
\* The helpers below are followed one call at a time: Init draws the
\* arguments of the call, the actions run its body, and the import run of
\* the sections above stays at rest.
runVars == <<source, credentials, dest, import_config, import_pause_state,
             import_state, pc, mode, config, idx, tbl, table_result, orch,
             tables_to_resume, report, pausePc, cancelPc, resumes, nqueries,
             nwrites, nerrors, imported_before>>

InitNoRun ==
    /\ InitAnyCredentials
    /\ credentials = [start |-> "tokenA", resume |-> "tokenA"]
    /\ source = [m \in Tables |-> {0}]
    /\ config = [import_direction |-> "oldest_first", start_timestamp |-> NoTime,
                 end_timestamp |-> NoTime, source_token |-> "tokenA"]

\* ------------------------------------------------------ datetime, timedelta
\* A timedelta is <<seconds, microseconds>> with 0 <= microseconds < 10^6,
\* as Python normalises it; a datetime is its distance from the epoch of
\* the call (the range start).
td_norm(s, us) == <<s + (us \div 1000000), us % 1000000>>
td_add(a, b) == td_norm(a[1] + b[1], a[2] + b[2])
td_sub(a, b) == td_norm(a[1] - b[1], a[2] - b[2])
td_le(a, b) == a[1] < b[1] \/ (a[1] = b[1] /\ a[2] <= b[2])

\* timedelta / 3, rounded to the nearest microsecond (no ties with 3)
td_third(a) ==
    LET x == (a[1] % 3) * 1000000 + a[2]
    IN  td_norm(a[1] \div 3, (x \div 3) + (IF x % 3 = 2 THEN 1 ELSE 0))

\* int(timedelta.total_seconds()): truncation towards zero
int_total_seconds(a) == IF a[1] < 0 /\ a[2] > 0 THEN a[1] + 1 ELSE a[1]

\* ------------------------------------------------------ sample_data_density
\* the test intervals (1 hour, 10 hours, 1 day, 5 days) that fit the range
viable_intervals(time_delta) ==
    SelectSeq(<<3600, 36000, 86400, 432000>>,
              LAMBDA secs : td_le(<<secs, 0>>, time_delta))

\* the i-th sample query (0-based, interval-major): its interval, and its
\* window as offsets from the range start (sample_points are the start,
\* one third and two thirds of the range)
sample_interval(time_delta, i) == viable_intervals(time_delta)[(i \div 3) + 1]
sample_start(time_delta, i) ==
    <<<<0, 0>>, td_third(time_delta),
      td_third(td_add(time_delta, time_delta))>>[(i % 3) + 1]
sample_end(time_delta, i) ==
    td_add(sample_start(time_delta, i), <<sample_interval(time_delta, i), 0>>)

\* rows_per_second = count / interval_seconds, kept as an exact fraction
\* over 432000 (the code adds floats); this is its numerator
rows_per_second(count, interval_seconds) == count * (432000 \div interval_seconds)

RECURSIVE mul_div(_, _, _)
\* <<q, r>> with a * b = q * c + r and 0 <= r < c, for 0 <= a < c; no
\* intermediate value leaves the 32-bit range
mul_div(a, b, c) ==
    IF b = 0 THEN <<0, 0>>
    ELSE LET h == mul_div(a, b \div 2, c)
             r2 == 2 * h[2] + (IF b % 2 = 1 THEN a ELSE 0)
         IN  <<2 * h[1] + (r2 \div c), r2 % c>>

\* int(x * b / c) for x, b >= 0 and c > 0; quotients beyond 2^30 are
\* reported as 2^30 (Python's integers do not overflow)
int_quotient(x, b, c) ==
    IF b # 0 /\ x \div c > (2 ^ 30) \div b
    THEN 2 ^ 30
    ELSE (x \div c) * b + mul_div(x % c, b, c)[1]

\* (mutant) the computed width is returned as it is
clamp_window_unclamped(w) == w

\* Clamp between 1 second and 30.5 days
clamp_window(w) == Max({1, Min({w, (86400 * 61) \div 2})})

\* the tail of sample_data_density: samples is the list of rows/sec values,
\* given by the numerator of its sum and its length
optimal_window(target_batch_size, samples_sum, samples_len) ==
    IF samples_len = 0 THEN 3600
    ELSE IF samples_sum = 0 THEN 86400
    ELSE clamp_window(int_quotient(target_batch_size * samples_len, 432000,
                                   samples_sum))

\* answers of the source to a COUNT(*) sample: a count, or -1 for no usable
\* answer (request failed, no series)
SampleAnswers == {0 - 1, 0, 1, 36000}

\* the calls drawn: ranges from negative to 15 days, three batch sizes
InitDensity ==
    /\ InitNoRun
    /\ call \in
        {[fn |-> "sample_data_density", time_delta |-> d, target_batch_size |-> b,
          i |-> 0, samples_sum |-> 0, samples_len |-> 0, result |-> 0] :
            d \in {<<0 - 5, 0>>, <<0, 0>>, <<0, 1>>, <<0, 500000>>, <<59, 0>>,
                   <<3599, 999999>>, <<3600, 0>>, <<3600, 1>>, <<5400, 0>>,
                   <<10800, 0>>, <<54000, 0>>, <<1296000, 0>>},
            b \in {0, 1, 2000}}

\* no probe interval fits the range: the whole duration is the window
DensityTooShort ==
    /\ call.fn = "sample_data_density"
    /\ call.result = 0
    /\ viable_intervals(call.time_delta) = <<>>
    /\ call' = [call EXCEPT !.result = Max({1, int_total_seconds(call.time_delta)})]
    /\ UNCHANGED runVars

\* one iteration of the sampling loops: the sample is skipped, or queried
DensitySample ==
    /\ call.fn = "sample_data_density"
    /\ call.result = 0
    /\ call.i < 3 * Len(viable_intervals(call.time_delta))
    /\ IF ~td_le(sample_end(call.time_delta, call.i), call.time_delta)
       THEN call' = [call EXCEPT !.i = @ + 1]
       ELSE \E count \in SampleAnswers :
               call' = IF count > 0
                       THEN [call EXCEPT
                               !.i = @ + 1,
                               !.samples_sum = @ + rows_per_second(count,
                                   sample_interval(call.time_delta, call.i)),
                               !.samples_len = @ + 1]
                       ELSE [call EXCEPT !.i = @ + 1]
    /\ UNCHANGED runVars

\* after the last sample
DensityReturn ==
    /\ call.fn = "sample_data_density"
    /\ call.result = 0
    /\ viable_intervals(call.time_delta) # <<>>
    /\ call.i = 3 * Len(viable_intervals(call.time_delta))
    /\ call' = [call EXCEPT !.result = optimal_window(call.target_batch_size,
                                           call.samples_sum, call.samples_len)]
    /\ UNCHANGED runVars

SpecDensity == InitDensity /\ [][DensityTooShort \/ DensitySample \/ DensityReturn]_vars

\* ------------------------------------------- import_table on a uniform table
\* One table whose rows lie rate per second from the range start (the
\* epoch) to span seconds later, both ends included, imported without
\* pause, cancel or failure.  Times are timedeltas from the first row.
\* number of rows with time < t, and with time <= t (the rows lie
\* 1000000 / rate microseconds apart, span * rate + 1 of them)
rows_before(span, rate, t) ==
    IF ~td_le(<<0, 0>>, t) THEN 0
    ELSE Min({span * rate + 1,
              t[1] * rate + ((t[2] + (1000000 \div rate) - 1) \div (1000000 \div rate))})
rows_until(span, rate, t) ==
    IF ~td_le(<<0, 0>>, t) THEN 0
    ELSE Min({span * rate + 1,
              t[1] * rate + (t[2] \div (1000000 \div rate)) + 1})

RECURSIVE density_samples(_, _, _, _)
\* the samples list after the sampling loops from sample i on: <<sum, len>>
density_samples(span, rate, time_delta, i) ==
    IF i >= 3 * Len(viable_intervals(time_delta)) THEN <<0, 0>>
    ELSE LET rest == density_samples(span, rate, time_delta, i + 1)
             \* SELECT COUNT(*) ... WHERE time >= sample_start AND time < sample_end
             count == rows_before(span, rate, sample_end(time_delta, i))
                      - rows_before(span, rate, sample_start(time_delta, i))
         IN  IF ~td_le(sample_end(time_delta, i), time_delta) \/ count <= 0
             THEN rest
             ELSE <<rest[1] + rows_per_second(count, sample_interval(time_delta, i)),
                    rest[2] + 1>>

\* sample_data_density over the table's own rows
density_of_table(span, rate, time_delta, target_batch_size) ==
    IF viable_intervals(time_delta) = <<>>
    THEN Max({1, int_total_seconds(time_delta)})
    ELSE LET s == density_samples(span, rate, time_delta, 0)
         IN  optimal_window(target_batch_size, s[1], s[2])

\* the calls drawn: one or two hours of rows, 1 or 10 rows per second
InitUniform ==
    /\ InitNoRun
    /\ call \in
        {[fn |-> "import_table", span |-> s, rate |-> r, target_batch_size |-> b,
          import_direction |-> d, step |-> "boundaries",
          actual_start |-> <<0, 0>>, actual_end |-> <<0, 0>>,
          optimal_window_seconds |-> 0, current_time |-> <<0, 0>>,
          rows_imported |-> 0, queries |-> 0] :
            s \in {3600, 7200}, r \in {1, 10}, b \in {500, 1000, 2000},
            d \in Directions}

\* find_actual_data_boundaries without a requested range: the oldest row,
\* and the newest row plus MICROSECOND_OFFSET
UniformBoundaries ==
    /\ call.fn = "import_table"
    /\ call.step = "boundaries"
    /\ call' = [call EXCEPT !.actual_start = <<0, 0>>,
                            !.actual_end = td_add(<<call.span, 0>>,
                                                 <<0, MICROSECOND_OFFSET>>),
                            !.step = "density"]
    /\ UNCHANGED runVars

\* sample_data_density and the initialisation of the loop
UniformDensity ==
    /\ call.fn = "import_table"
    /\ call.step = "density"
    /\ call' = [call EXCEPT
                  !.optimal_window_seconds =
                      density_of_table(call.span, call.rate,
                                       td_sub(call.actual_end, call.actual_start),
                                       call.target_batch_size),
                  !.current_time = IF call.import_direction = "oldest_first"
                                   THEN call.actual_start ELSE call.actual_end,
                  !.step = "loop"]
    /\ UNCHANGED runVars

\* one iteration of the import loop: window, query, write, advance
UniformWindow ==
    /\ call.fn = "import_table"
    /\ call.step = "loop"
    /\ LET up == call.import_direction = "oldest_first"
           w  == <<call.optimal_window_seconds, 0>>
           ws == IF up THEN call.current_time
                 ELSE IF ~td_le(call.actual_start, td_sub(call.current_time, w))
                      THEN call.actual_start ELSE td_sub(call.current_time, w)
           we == IF ~up THEN call.current_time
                 ELSE IF ~td_le(td_add(call.current_time, w), call.actual_end)
                      THEN call.actual_end ELSE td_add(call.current_time, w)
           nxt == IF up THEN we ELSE ws
           stop == IF up THEN td_le(call.actual_end, nxt)
                   ELSE td_le(nxt, call.actual_start)
       IN  call' = [call EXCEPT
                      !.queries = @ + 1,
                      !.rows_imported = @ + rows_until(call.span, call.rate, we)
                                         - rows_before(call.span, call.rate, ws),
                      !.current_time = nxt,
                      !.step = IF stop THEN "done" ELSE "loop"]
    /\ UNCHANGED runVars

SpecUniform == InitUniform /\ [][UniformBoundaries \/ UniformDensity \/ UniformWindow]_vars

\* ---------------------------------------------------- query_source_influxdb
MAX_RETRIES == 5
INITIAL_BACKOFF_SECONDS == 1
MAX_BACKOFF_SECONDS == 16

\* None and the empty string, both false in a condition
NoString == ""
NoHeader == [scheme |-> "", credentials |-> ""]

\* base64.b64encode(f"{username}:{password}")
b64encode(username, password) ==
    IF username = "user" /\ password = "pass" THEN "dXNlcjpwYXNz" ELSE "Og=="

\* (mutant) only version 2 insists on a token
token_required_v2_only(influxdb_version) == influxdb_version = 2

\* versions whose branch raises when source_token is missing
token_required(influxdb_version) == influxdb_version \in {2, 3}

\* the Authorization header, NoHeader if none is set
authorization(c) ==
    IF c.influxdb_version = 1
    THEN IF c.source_username # NoString /\ c.source_password # NoString
         THEN [scheme |-> "Basic",
               credentials |-> b64encode(c.source_username, c.source_password)]
         ELSE IF c.source_token # NoString
              THEN [scheme |-> "Bearer", credentials |-> c.source_token]
              ELSE NoHeader
    ELSE IF c.influxdb_version = 2
         THEN [scheme |-> "Token", credentials |-> c.source_token]
         ELSE IF c.influxdb_version = 3
              THEN [scheme |-> "Bearer", credentials |-> c.source_token]
              ELSE NoHeader

\* (mutant) the wait is never lengthened
next_backoff_constant(backoff) == backoff

next_backoff(backoff) == Min({backoff * 2, MAX_BACKOFF_SECONDS})

\* what one session.get + raise_for_status + json() can do: return, raise a
\* requests.exceptions.RequestException (connection error, timeout, HTTP
\* 4xx or 5xx status), or raise anything else
Outcomes ==
    {"ok", "unexpected", "connection_error", "timeout", "http_4xx", "http_5xx"}

InitQuery ==
    /\ InitNoRun
    /\ call \in
        {[fn |-> "query_source_influxdb", influxdb_version |-> v, source_token |-> t,
          source_username |-> u, source_password |-> p, step |-> "auth",
          headers |-> NoHeader, retry_count |-> 0, backoff |-> 0, requests |-> 0,
          failures |-> <<>>, waits |-> <<>>, error |-> ""] :
            v \in {1, 2, 3}, t \in {NoString, "tokenA"},
            u \in {NoString, "user"}, p \in {NoString, "pass"}}

\* up to the retry loop: the headers, or the ValueError
QueryAuth ==
    /\ call.fn = "query_source_influxdb"
    /\ call.step = "auth"
    /\ IF token_required(call.influxdb_version) /\ call.source_token = NoString
       THEN call' = [call EXCEPT !.step = "raised", !.error = "ValueError"]
       ELSE call' = [call EXCEPT !.step = "request",
                                 !.headers = authorization(call),
                                 !.retry_count = 0,
                                 !.backoff = INITIAL_BACKOFF_SECONDS]
    /\ UNCHANGED runVars

\* one iteration of the retry loop: the request and, if it failed, the wait
QueryAttempt ==
    /\ call.fn = "query_source_influxdb"
    /\ call.step = "request"
    /\ call.retry_count < MAX_RETRIES
    /\ \E outcome \in Outcomes :
          call' =
            IF outcome = "ok"
            THEN [call EXCEPT !.requests = @ + 1, !.step = "returned"]
            ELSE IF outcome = "unexpected"
            THEN [call EXCEPT !.requests = @ + 1, !.step = "raised",
                              !.error = "Exception"]
            ELSE IF call.retry_count + 1 >= MAX_RETRIES
            THEN [call EXCEPT !.requests = @ + 1,
                              !.retry_count = @ + 1,
                              !.failures = Append(@, outcome),
                              !.step = "raised",
                              !.error = "RequestException"]
            ELSE [call EXCEPT !.requests = @ + 1,
                              !.retry_count = @ + 1,
                              !.failures = Append(@, outcome),
                              !.waits = Append(@, call.backoff),
                              !.backoff = next_backoff(@)]
    /\ UNCHANGED runVars

SpecQuery == InitQuery /\ [][QueryAuth \/ QueryAttempt]_vars

\* ------------------------------------------ convert_influxql_to_line_protocol
\* A Python value is its type and its text (what str(value) gives); a
\* column, tag or field name is the sequence of the parts its text joins
\* with "_" (room_1 is <<"room", "1">>).
Py(t, s) == [t |-> t, s |-> s]
PyNone == Py("NoneType", "None")
PyError == Py("ValueError", "")

\* isinstance(value, int) is true of a bool as well
check_influx_type_to_python_type(influx_type, value) ==
    IF influx_type = "string" THEN value.t = "str"
    ELSE IF influx_type = "boolean" THEN value.t = "bool"
    ELSE IF influx_type = "integer" THEN value.t \in {"int", "bool"}
    ELSE IF influx_type = "unsigned" THEN value.t \in {"int", "bool"}
    ELSE IF influx_type = "float"
         THEN IF value.t # "float" /\ value.t \in {"int", "bool"} THEN TRUE
              ELSE value.t = "float"
    ELSE FALSE

get_actual_influx_type(value) ==
    IF value.t = "bool" THEN "boolean"
    ELSE IF value.t = "int" THEN "integer"
    ELSE IF value.t = "float" THEN "float"
    ELSE "string"

\* write_field_to_builder: what bool(value), int(value), float(value) or
\* str(value) hands to the LineBuilder for the values drawn, PyError if the
\* conversion raises
field_value(value, field_type) ==
    IF field_type = "boolean"
    THEN IF value.t = "bool" THEN value
         ELSE IF value = PyNone THEN Py("bool", "False")
         ELSE Py("bool", "True")
    ELSE IF field_type \in {"integer", "unsigned"}
    THEN IF value.t = "int" THEN value
         ELSE IF value = Py("bool", "True") THEN Py("int", "1")
         ELSE IF value = Py("float", "1.5") THEN Py("int", "1")
         ELSE PyError
    ELSE IF field_type = "float"
    THEN IF value.t = "float" THEN value
         ELSE IF value = Py("bool", "True") THEN Py("float", "1.0")
         ELSE IF value = Py("int", "7") THEN Py("float", "7.0")
         ELSE PyError
    ELSE Py("str", value.s)

\* col.endswith("_1"), col[:-2], f"{col}_{suffix}", the set of the columns
ends_with_1(col) == Len(col) > 1 /\ col[Len(col)] = "1"
strip_1(col) == SubSeq(col, 1, Len(col) - 1)
with_suffix(col, suffix) == Append(col, suffix)
column_set(columns) == {columns[i] : i \in 1..Len(columns)}

\* tag_renames.get(name, name), tag_renames built by import_table from
\* check_tag_field_conflicts: the tags that are fields too get "_tag"
tag_rename(tags, fields, name) ==
    IF name \in tags \cap DOMAIN fields THEN with_suffix(name, "tag") ELSE name

\* analyze_column_schema, tag part: original_tag_name of column i, <<>> if
\* the column is not a tag
original_tag_name(c, i) ==
    LET col == c.columns[i]
    IN  IF col = <<"time">> THEN <<>>
        ELSE IF col \in c.tag_keys /\ col \notin DOMAIN c.field_types THEN col
        ELSE IF col \in c.tag_keys /\ col \in DOMAIN c.field_types
        THEN IF with_suffix(col, "1") \notin column_set(c.columns)
             THEN IF check_influx_type_to_python_type(c.field_types[col],
                                                      c.values[1][i])
                  THEN <<>> ELSE col
             ELSE <<>>
        ELSE IF ends_with_1(col)
        THEN IF strip_1(col) \in c.tag_keys /\ strip_1(col) \in DOMAIN c.field_types
             THEN strip_1(col) ELSE <<>>
        ELSE <<>>

\* analyze_column_schema, field part: is column i in field_columns
is_field_column(c, i) ==
    LET col == c.columns[i]
    IN  IF col = <<"time">> THEN FALSE
        ELSE IF ends_with_1(col) /\ strip_1(col) \in c.tag_keys
                /\ strip_1(col) \in DOMAIN c.field_types
        THEN FALSE
        ELSE IF col \in c.tag_keys /\ col \in DOMAIN c.field_types
        THEN with_suffix(col, "1") \in column_set(c.columns)
        ELSE col \notin c.tag_keys /\ col \in DOMAIN c.field_types

tag_columns(c) ==
    {i \in 1..Len(c.columns) : original_tag_name(c, i) # <<>>}
field_columns(c) ==
    {i \in 1..Len(c.columns) : is_field_column(c, i)}

NoLine == [tags |-> {}, fields |-> {}, time_ns |-> 0 - 1]

\* parse_timestamp_to_nanoseconds on the timestamps drawn
parse_timestamp_to_nanoseconds(timestamp) ==
    IF timestamp = Py("str", "1970-01-01T00:00:01Z") THEN 1000000000
    ELSE IF timestamp = Py("int", "7") THEN 7
    ELSE 0

\* the field a non-null value of field column i is written as (the names
\* drawn hold no space for sanitize_field_name to replace)
row_field(c, row, i) ==
    LET col == c.columns[i]
        field_type == c.field_types[col]
        value == row[i]
        type_matches == check_influx_type_to_python_type(field_type, value)
        actual_type == IF type_matches THEN field_type
                       ELSE get_actual_influx_type(value)
        field_name == IF type_matches THEN col ELSE with_suffix(col, actual_type)
    IN  [name |-> field_name, type |-> actual_type,
         value |-> field_value(value, actual_type)]

\* the series carries no GROUP BY tags (the window query has none)
build_line_protocol_row(c, row) ==
    LET tags == {[name |-> tag_rename(c.tag_keys, c.field_types,
                                       original_tag_name(c, i)),
                  value |-> row[i].s] :
                    i \in {j \in tag_columns(c) : row[j] # PyNone}}
        fields == {f \in {row_field(c, row, i) :
                            i \in {j \in field_columns(c) : row[j] # PyNone}} :
                      f.value # PyError}
    IN  IF fields = {} THEN NoLine
        ELSE [tags |-> tags, fields |-> fields,
              time_ns |-> parse_timestamp_to_nanoseconds(row[1])]

\* the columns SELECT * answers with for a schema over the names room and
\* temp; the tag column of a colliding name comes as room_1, or is left out
ColumnLists(tags, fields) ==
    IF <<"room">> \in tags /\ <<"room">> \in DOMAIN fields
    THEN {<<<<"time">>, <<"room">>, <<"room", "1">>, <<"temp">>>>,
          <<<<"time">>, <<"room">>, <<"temp">>>>}
    ELSE IF <<"room">> \in tags \/ <<"room">> \in DOMAIN fields
    THEN {<<<<"time">>, <<"room">>, <<"temp">>>>}
    ELSE {<<<<"time">>, <<"temp">>>>}

\* the values drawn for a column
CellValues(col) ==
    IF col = <<"time">> THEN {Py("str", "1970-01-01T00:00:01Z")}
    ELSE IF col = <<"room">> THEN {PyNone, Py("str", "kitchen"), Py("int", "7")}
    ELSE IF col = <<"room", "1">> THEN {PyNone, Py("str", "hall")}
    ELSE {PyNone, Py("str", "warm"), Py("int", "7"), Py("float", "1.5"),
          Py("bool", "True")}

Rows(columns) ==
    {r \in [1..Len(columns) -> UNION {CellValues(columns[i]) : i \in 1..Len(columns)}] :
        \A i \in 1..Len(columns) : r[i] \in CellValues(columns[i])}

\* the calls drawn: room a tag or not, a field (string or integer) or not,
\* temp a field of any type, result sets of up to two rows
InitTranscode ==
    /\ InitNoRun
    /\ call \in
        UNION {UNION {UNION {
            {[fn |-> "convert_influxql_to_line_protocol", tag_keys |-> tags,
              field_types |-> fields, columns |-> cols, values |-> vals,
              step |-> "analyze", row_idx |-> 1, lines |-> <<>>] :
                vals \in UNION {[1..n -> Rows(cols)] : n \in 0..2}} :
            cols \in ColumnLists(tags, fields)} :
            fields \in
                {[n \in {<<"temp">>} |-> t] :
                    t \in {"integer", "float", "string", "boolean"}}
                \cup {[n \in {<<"temp">>, <<"room">>} |->
                        IF n = <<"temp">> THEN t ELSE u] :
                        t \in {"integer", "float", "string", "boolean"},
                        u \in {"string", "integer"}}} :
            tags \in {{}, {<<"room">>}}}

\* up to the row loop: early return, or the column analysis
TranscodeAnalyze ==
    /\ call.fn = "convert_influxql_to_line_protocol"
    /\ call.step = "analyze"
    /\ call' = [call EXCEPT !.step = IF Len(call.values) = 0 THEN "done" ELSE "rows"]
    /\ UNCHANGED runVars

\* one iteration of the row loop
TranscodeRow ==
    /\ call.fn = "convert_influxql_to_line_protocol"
    /\ call.step = "rows"
    /\ call' = [call EXCEPT
                  !.lines = Append(@, build_line_protocol_row(call,
                                          call.values[call.row_idx])),
                  !.row_idx = @ + 1,
                  !.step = IF call.row_idx = Len(call.values) THEN "done" ELSE "rows"]
    /\ UNCHANGED runVars

SpecTranscode == InitTranscode /\ [][TranscodeAnalyze \/ TranscodeRow]_vars

\* -------------------------------------------------------------- load_config
\* A configuration value is its type with its text or its items; a source
\* (os.environ, args, the TOML file, body_args) maps every key to a value,
\* to None, or to Unset when it has no such key.
Cfg(t, s, items) == [t |-> t, s |-> s, items |-> items]
Unset == Cfg("unset", "", <<>>)
CfgNone == Cfg("NoneType", "", <<>>)

ConfigKeys ==
    {"source_database", "source_token", "target_batch_size", "table_filter",
     "config_file_path"}
\* the keys env_mappings gives an environment variable
EnvKeys == {"source_database", "source_token"}

\* a dict is empty (false in a condition) when it has no key
is_empty(d) == \A k \in DOMAIN d : d[k] = Unset

\* [t.strip() for t in value.split(".")] on the strings drawn
split_table_filter(s) ==
    IF s = "cpu.mem" THEN <<"cpu", "mem">>
    ELSE IF s = "" THEN <<"">>
    ELSE <<s>>

\* 1. environment variables
with_environ(config_data, environ) ==
    [k \in ConfigKeys |->
        IF k \in EnvKeys /\ environ[k] # Unset THEN environ[k] ELSE config_data[k]]

\* 2. args, but for config_file_path and None values
with_args(config_data, args) ==
    [k \in ConfigKeys |->
        IF k # "config_file_path" /\ args[k] \notin {Unset, CfgNone}
        THEN args[k] ELSE config_data[k]]

\* is a configuration file asked for
file_requested(args, body_args) ==
    \/ (~is_empty(args) /\ args["config_file_path"] # Unset)
    \/ (~is_empty(body_args) /\ body_args["config_file_path"] # Unset)

\* 3. config_data.update(file_config)
with_file(config_data, file_config) ==
    [k \in ConfigKeys |->
        IF file_config[k] # Unset THEN file_config[k] ELSE config_data[k]]

\* (mutant) the request body is ignored
body_value_applies_never(value) == FALSE

\* 4. body_args: every value that is not None
body_value_applies(value) == value \notin {Unset, CfgNone}

with_body(config_data, body_args) ==
    [k \in ConfigKeys |->
        IF body_value_applies(body_args[k]) THEN body_args[k] ELSE config_data[k]]

\* table_filter given as a dot-separated string becomes a list
with_table_filter(config_data) ==
    [config_data EXCEPT !["table_filter"] =
        IF @.t = "str" THEN Cfg("list", "", split_table_filter(@.s)) ELSE @]

\* ImportConfig(**config_data), with the dataclass defaults
ImportConfig(config_data) ==
    [k \in ConfigKeys |->
        IF config_data[k] # Unset THEN config_data[k]
        ELSE IF k = "target_batch_size" THEN Cfg("int", "2000", <<>>)
        ELSE CfgNone]

NoConfigData == [k \in ConfigKeys |-> Unset]

\* the whole of load_config: <<outcome, ImportConfig>>.  The file is named
\* by args if args is not empty, by body_args otherwise; a name of None
\* makes the path join raise.  No username or password is given, so the
\* token must be there and not empty; source_database has no default.
load_config(c) ==
    LET d2 == with_args(with_environ(NoConfigData, c.environ), c.args)
        requested == file_requested(c.args, c.body_args)
        path == IF ~is_empty(c.args) THEN c.args["config_file_path"]
                ELSE c.body_args["config_file_path"]
        d3 == IF requested /\ c.file_exists THEN with_file(d2, c.file_config) ELSE d2
        d5 == with_table_filter(with_body(d3, c.body_args))
    IN  IF requested /\ ~c.plugin_dir THEN <<"Exception", NoConfigData>>
        ELSE IF requested /\ path \in {Unset, CfgNone} THEN <<"TypeError", NoConfigData>>
        ELSE IF d5["source_token"] \in {Unset, CfgNone, Cfg("str", "", <<>>)}
        THEN <<"ValueError", NoConfigData>>
        ELSE IF d5["source_database"] = Unset THEN <<"TypeError", NoConfigData>>
        ELSE <<"returned", ImportConfig(d5)>>

\* a source holding the given values
SourceDict(database, token, batch_size, filter, path) ==
    [k \in ConfigKeys |->
        IF k = "source_database" THEN database
        ELSE IF k = "source_token" THEN token
        ELSE IF k = "target_batch_size" THEN batch_size
        ELSE IF k = "table_filter" THEN filter
        ELSE path]

\* the calls drawn: every source with or without each of its keys
InitConfig ==
    /\ InitNoRun
    /\ call \in
        {[fn |-> "load_config", environ |-> e, args |-> a, file_config |-> f,
          body_args |-> b, file_exists |-> x, plugin_dir |-> d,
          step |-> "call", config |-> NoConfigData] :
            e \in {SourceDict(v, t, Unset, Unset, Unset) :
                     v \in {Unset, Cfg("str", "db_env", <<>>)},
                     t \in {Unset, Cfg("str", "token_env", <<>>), Cfg("str", "", <<>>)}},
            a \in {SourceDict(v, Unset, n, l, p) :
                     v \in {Unset, Cfg("str", "db_args", <<>>)},
                     n \in {Unset, Cfg("str", "500", <<>>)},
                     l \in {Unset, Cfg("str", "cpu.mem", <<>>)},
                     p \in {Unset, Cfg("str", "import.toml", <<>>)}},
            f \in {SourceDict(v, t, n, Unset, Unset) :
                     v \in {Unset, Cfg("str", "db_file", <<>>)},
                     t \in {Unset, Cfg("str", "token_file", <<>>)},
                     n \in {Unset, Cfg("int", "1000", <<>>)}},
            b \in {SourceDict(v, Unset, n, l, p) :
                     v \in {Unset, CfgNone, Cfg("str", "db_body", <<>>)},
                     n \in {Unset, Cfg("int", "4000", <<>>)},
                     l \in {Unset, Cfg("list", "", <<"mem">>)},
                     p \in {Unset, Cfg("str", "import.toml", <<>>)}},
            x \in BOOLEAN, d \in BOOLEAN}

LoadConfig ==
    /\ call.fn = "load_config"
    /\ call.step = "call"
    /\ call' = [call EXCEPT !.step = load_config(call)[1],
                            !.config = load_config(call)[2]]
    /\ UNCHANGED runVars

SpecConfig == InitConfig /\ [][LoadConfig]_vars

\* --------------------------------------------------- _validate_source_params
\* int(value) on the values drawn: the number, or 0 - 1 where it raises
\* TypeError or ValueError (no value drawn converts to a negative number)
py_int(value) ==
    IF value.t \in {"int", "str"} /\ value.s \in {"0", "1", "2", "3", "4"}
    THEN CHOOSE n \in 0..4 : <<"0", "1", "2", "3", "4">>[n + 1] = value.s
    ELSE IF value = Py("float", "2.5") THEN 2
    ELSE IF value = Py("float", "1.0") THEN 1
    ELSE IF value = Py("bool", "True") THEN 1
    ELSE IF value = Py("bool", "False") THEN 0
    ELSE 0 - 1

\* the error dict returned, error "" for None, and the version left in
\* body_data
validate_source_params(source_url, influxdb_version) ==
    IF source_url \in {PyNone, Py("str", ""), Py("str", " ")}
    THEN [error |-> "source_url is required", value |-> "",
          influxdb_version |-> influxdb_version]
    ELSE IF influxdb_version = PyNone
    THEN [error |-> "influxdb_version is required", value |-> "",
          influxdb_version |-> influxdb_version]
    ELSE IF py_int(influxdb_version) \notin {1, 2, 3}
    THEN [error |-> "Unsupported influxdb_version", value |-> influxdb_version.s,
          influxdb_version |-> influxdb_version]
    ELSE [error |-> "", value |-> "",
          influxdb_version |-> Py("int", <<"1", "2", "3">>[py_int(influxdb_version)])]

\* the calls drawn: a URL that is missing, empty, blank or given, and a
\* version of every type
InitValidate ==
    /\ InitNoRun
    /\ call \in
        {[fn |-> "_validate_source_params", source_url |-> u,
          influxdb_version |-> v, step |-> "call",
          result |-> [error |-> "", value |-> "", influxdb_version |-> v]] :
            u \in {PyNone, Py("str", ""), Py("str", " "),
                   Py("str", "http://localhost:8086")},
            v \in {PyNone, Py("str", "abc"), Py("str", ""), Py("float", "2.5"),
                   Py("float", "1.0"), Py("bool", "True"), Py("bool", "False")}
                  \cup {Py(t, s) : t \in {"int", "str"},
                                   s \in {"0", "1", "2", "3", "4"}}}

ValidateSourceParams ==
    /\ call.fn = "_validate_source_params"
    /\ call.step = "call"
    /\ call' = [call EXCEPT
                  !.step = "returned",
                  !.result = validate_source_params(call.source_url,
                                                    call.influxdb_version)]
    /\ UNCHANGED runVars

SpecValidate == InitValidate /\ [][ValidateSourceParams]_vars

\* ------------------------------------ import_table: the loop under failures
\* The loop of import_table on a table whose boundaries are known, with the
\* flag left as it is (no pause or cancel request is made): every query may
\* raise after its retries.  errors holds the distinct entries of the
\* list.
InitLoop ==
    /\ InitNoRun
    /\ call \in
        {[fn |-> "import_table", import_direction |-> d,
          actual_start |-> a, actual_end |-> b, optimal_window_seconds |-> w,
          current_time |-> IF d = "oldest_first" THEN a ELSE b,
          errors |-> {}, step |-> "poll", status |-> "none"] :
            d \in Directions, a \in Times, b \in Times, w \in 1..MaxWindow}
    /\ call.actual_start < call.actual_end

\* "Check for pause/cancel state": return on cancelled or paused
LoopPoll ==
    /\ call.fn = "import_table"
    /\ call.step = "poll"
    /\ call' = IF check_pause_state = "running"
               THEN [call EXCEPT !.step = "window"]
               ELSE [call EXCEPT !.step = "returned",
                                 !.status = check_pause_state]
    /\ UNCHANGED runVars

\* "Calculate window", the query, "Move to next window" with its break, and
\* the except branch, which moves the cursor and goes round again
LoopWindow ==
    /\ call.fn = "import_table"
    /\ call.step = "window"
    /\ \E raised \in BOOLEAN :
        LET up == call.import_direction = "oldest_first"
            ws == IF up THEN call.current_time
                  ELSE Max({call.actual_start,
                            call.current_time - call.optimal_window_seconds})
            we == IF ~up THEN call.current_time
                  ELSE Min({call.actual_end,
                            call.current_time + call.optimal_window_seconds})
            nxt == IF up THEN we ELSE ws
            stop == IF up THEN nxt >= call.actual_end
                    ELSE nxt <= call.actual_start
        IN  call' = IF raised
                    THEN [call EXCEPT !.errors = @ \cup {<<ws, we>>},
                                      !.current_time = nxt,
                                      !.step = "poll"]
                    ELSE [call EXCEPT !.current_time = nxt,
                                      !.step = IF stop THEN "returned" ELSE "poll",
                                      !.status = IF stop THEN "completed" ELSE @]
    /\ UNCHANGED runVars

\* the loop does not wait for anything but its own sleeps: each iteration
\* is eventually followed by the next
SpecLoop ==
    InitLoop /\ [][LoopPoll \/ LoopWindow]_vars /\ WF_vars(LoopPoll \/ LoopWindow)

\* ------------------------------------- a resume request during the start
\* A resume request handled while the start invocation of the run is still
\* in its loop: the requests are served independently of each other (the
\* pause request has to be, to reach a running import).  call holds the
\* resume invocation: its table index, its tables_to_resume, its table.
\* Its queries and writes succeed; the saved configuration it loads has the
\* direction and range of the start's.
InitOverlap ==
    /\ InitAnyCredentials
    /\ credentials = [start |-> "tokenA", resume |-> "tokenA"]
    /\ source = [m \in Tables |-> IF m = "cpu" THEN Times ELSE {0}]
    /\ config.start_timestamp = NoTime
    /\ call = [fn |-> "resume_import", step |-> "request", idx |-> 1,
               tables_to_resume |-> NoPlan, tbl |-> NewTbl, status |-> ""]

\* resume_import: the checks, the un-paused flag record, the classification
OverlapResumeImport ==
    /\ call.fn = "resume_import"
    /\ call.step = "request"
    /\ pc # "none"
    /\ IF get_import_pause_state # "paused" \/ non_completed_tables(import_state) = {}
       THEN /\ call' = [call EXCEPT !.step = "returned", !.status = "error"]
            /\ UNCHANGED import_pause_state
       ELSE /\ import_pause_state' = Append(import_pause_state, resume_record)
            /\ call' = IF incomplete_tables(import_state) = {}
                       THEN [call EXCEPT !.step = "returned", !.status = "error"]
                       ELSE [call EXCEPT !.step = "next_table",
                                         !.tables_to_resume = resume_plan(import_state)]
    /\ UNCHANGED <<source, credentials, dest, import_config, import_state, pc, mode,
                   config, idx, tbl, table_result, orch, tables_to_resume,
                   report, resumes>>
    /\ UNCHANGED opVars
    /\ UNCHANGED ghostVars

\* resume_incomplete_import's loop in the resume invocation, and
\* import_table up to the top of its loop
OverlapNextTable ==
    /\ call.fn = "resume_import"
    /\ call.step = "next_table"
    /\ IF call.idx > Len(measurements)
       THEN call' = [call EXCEPT !.step = "returned",
                                 !.status = "resumed_and_completed"]
       ELSE LET m == measurements[call.idx]
                plan == call.tables_to_resume[m]
                start_time == IF plan.kind = "resume" THEN resume_start(plan.ts)
                              ELSE config.start_timestamp
                b == find_actual_data_boundaries(m, start_time,
                                                 config.end_timestamp)
            IN  IF \/ plan.kind = "other" /\ already_completed(import_state, m)
                   \/ b[1] = NoTime
                THEN call' = [call EXCEPT !.idx = @ + 1]
                ELSE \E w \in sample_data_density(m, start_time,
                                                  config.end_timestamp) :
                        call' = [call EXCEPT
                                   !.step = "poll",
                                   !.tbl = [NewTbl EXCEPT
                                       !.measurement = m,
                                       !.user_start = start_time,
                                       !.actual_start = b[1],
                                       !.actual_end =
                                           IF b[1] = b[2]
                                           THEN b[2] + MICROSECOND_OFFSET
                                           ELSE b[2],
                                       !.window = w,
                                       !.current_time =
                                           IF direction > 0 THEN b[1]
                                           ELSE b[2]]]
    /\ UNCHANGED runVars

\* the resume invocation's poll of the flag; resume_incomplete_import goes
\* on to the next table whatever import_table returns
OverlapPoll ==
    /\ call.fn = "resume_import"
    /\ call.step = "poll"
    /\ IF check_pause_state = "running"
       THEN /\ call' = [call EXCEPT !.step = "window"]
            /\ UNCHANGED import_state
       ELSE /\ import_state' =
                   write_import_state(import_state, call.tbl.measurement,
                       check_pause_state, call.tbl.rows_imported,
                       IF check_pause_state = "paused"
                       THEN paused_at_time(call.tbl.current_time, call.tbl.result)
                       ELSE NoTime)
            /\ call' = [call EXCEPT !.step = "next_table", !.idx = @ + 1]
    /\ UNCHANGED <<source, credentials, dest, import_config, import_pause_state, pc,
                   mode, config, idx, tbl, table_result, orch, tables_to_resume,
                   report, resumes>>
    /\ UNCHANGED opVars
    /\ UNCHANGED ghostVars

\* the resume invocation's window: query, write, checkpoint, advance
OverlapWindow ==
    /\ call.fn = "resume_import"
    /\ call.step = "window"
    /\ LET t == call.tbl
           m == t.measurement
           rows == window_rows(m, window_start(t), window_end(t))
           n == t.rows_imported + Cardinality(rows)
           log1 == IF rows # {}
                   THEN progress_checkpoint(import_state, m, t.rows_imported,
                                            Cardinality(rows))
                   ELSE import_state
       IN  /\ dest' = IF rows # {} THEN add_rows(dest, m, rows) ELSE dest
           /\ import_state' = IF loop_exits(t)
                              THEN write_import_state(log1, m, "completed", n, NoTime)
                              ELSE log1
           /\ call' = [call EXCEPT
                         !.tbl = [t EXCEPT !.result = [fetched |-> TRUE,
                                                       times |-> rows],
                                           !.rows_imported = n,
                                           !.current_time = next_time(t)],
                         !.step = IF loop_exits(t) THEN "next_table" ELSE "poll",
                         !.idx = IF loop_exits(t) THEN @ + 1 ELSE @]
    /\ UNCHANGED <<source, credentials, import_config, import_pause_state, pc, mode,
                   config, idx, tbl, table_result, orch, tables_to_resume,
                   report, resumes>>
    /\ UNCHANGED opVars
    /\ UNCHANGED ghostVars

NextOverlap ==
    \/ StartImport
    \/ StartNextTable
    \/ StartTableDone
    \/ FinishRun
    \/ Poll
    \/ Paused
    \/ Window
    \/ PauseImport
    \/ OverlapResumeImport
    \/ OverlapNextTable
    \/ OverlapPoll
    \/ OverlapWindow

SpecOverlap == InitOverlap /\ [][NextOverlap]_vars

\* --------------------------- import_table: the queries before the loop
\* The start invocation with the queries import_table makes before its loop
\* free to raise once their retries are exhausted: the two boundary
\* queries (caught in find_actual_data_boundaries, which then returns None
\* for the boundary not yet found), SHOW FIELD KEYS and SHOW TAG KEYS (not
\* caught up to process_request, which returns status error).  call
\* records the outcome of the latest import_table call.
InitSetup ==
    /\ InitAnyCredentials
    /\ credentials = [start |-> "tokenA", resume |-> "tokenA"]
    /\ call = [fn |-> "import_table", measurement |-> "", outcome |-> ""]

SetupNextTable ==
    /\ pc = "next_table"
    /\ mode = "start"
    /\ idx <= Len(measurements)
    /\ \E outcome \in {"ok", "boundary_error", "field_keys_error", "tag_keys_error"} :
        LET m == measurements[idx]
            b == find_actual_data_boundaries(m, config.start_timestamp,
                                             config.end_timestamp)
        IN  /\ outcome # "ok" => nerrors < MaxErrors
            /\ outcome \in {"field_keys_error", "tag_keys_error"} => b[1] # NoTime
            /\ nerrors' = IF outcome = "ok" THEN nerrors ELSE nerrors + 1
            /\ nqueries' = nqueries
            /\ nwrites' = nwrites
            /\ imported_before' = imported_before
            /\ call' = [fn |-> "import_table", measurement |-> m,
                        outcome |-> outcome]
            /\ CASE outcome = "ok" ->
                     /\ \E w \in sample_data_density(m, config.start_timestamp,
                                                     config.end_timestamp) :
                            import_table_begin(m, config.start_timestamp,
                                               config.end_timestamp, w)
                     /\ UNCHANGED report
                 [] outcome = "boundary_error" ->
                     /\ table_result' = [measurement |-> m, status |-> "completed",
                                         rows_imported |-> 0, errors |-> <<>>]
                     /\ tbl' = [NewTbl EXCEPT !.measurement = m,
                                              !.user_start = config.start_timestamp,
                                              !.mark = Len(import_state),
                                              !.dest_mark = rows_in_dest(m)]
                     /\ pc' = "table_done"
                     /\ UNCHANGED report
                 [] OTHER ->
                     /\ report' = [op |-> "start", status |-> "error",
                                   rows_imported |-> 0, on_table |-> m]
                     /\ pc' = "idle"
                     /\ UNCHANGED <<tbl, table_result>>
    /\ UNCHANGED <<source, credentials, dest, mode, config, idx, orch,
                   tables_to_resume, resumes>>
    /\ UNCHANGED storeVars
    /\ UNCHANGED opVars

NextSetup ==
    \/ StartImport
    \/ SetupNextTable
    \/ Poll
    \/ Window
    \/ StartTableDone
    \/ FinishRun

SpecSetup == InitSetup /\ [][NextSetup]_vars

\* ----------------------------------------------------------- get_import_stats
\* "Determine overall import status": from the latest flag record and the
\* latest checkpoint of each table ('all' is cancel_import's marker)
overall_status ==
    LET known == {m \in Tables : latest_index(import_state, m) # 0}
        count(status) ==
            Cardinality({m \in known : latest_state(import_state, m).status = status})
    IN  IF Len(import_state) = 0 THEN "not_found"
        ELSE IF \/ get_import_pause_state = "cancelled"
                \/ latest_state(import_state, "all").status = "cancelled"
        THEN "cancelled"
        ELSE IF get_import_pause_state = "paused" THEN "paused"
        ELSE IF count("completed") = Cardinality(known) /\ known # {}
        THEN "completed"
        ELSE IF count("in_progress") > 0 \/ count("pending") > 0 THEN "running"
        ELSE "unknown"

\* ================================================================== claims
\* rows of table m inside the run's requested range
requested_rows(m) ==
    {r \in source[m] :
        /\ (config.start_timestamp = NoTime \/ r >= config.start_timestamp)
        /\ (config.end_timestamp = NoTime \/ r <= config.end_timestamp)}

in_loop == pc \in {"poll", "window", "paused", "cancelled"}

both_flags_set ==
    /\ Len(import_pause_state) > 0
    /\ import_pause_state[Len(import_pause_state)].paused
    /\ import_pause_state[Len(import_pause_state)].canceled

\* C1: when the latest flag record has paused = true and canceled = true,
\* the loop's poll takes the cancelled branch, never the paused one, and
\* that branch checkpoints the table 'cancelled' and returns status
\* cancelled.
C1_CancelPrecedence ==
    [][/\ (pc = "poll" /\ both_flags_set) => pc' \in {"poll", "cancelled"}
       /\ (pc = "cancelled" /\ pc' # pc) =>
              /\ pc' = "table_done"
              /\ table_result'.status = "cancelled"
              /\ latest_state(import_state', tbl.measurement).status = "cancelled"]_vars

C1_Witness ==
    /\ pc = "table_done"
    /\ table_result.status = "cancelled"
    /\ both_flags_set
    /\ latest_state(import_state, tbl.measurement).status = "cancelled"

\* the table import_table is working on is being resumed from a checkpoint
resuming == mode = "resume" /\ tables_to_resume[tbl.measurement].kind = "resume"

\* rows of table m after tick T, up to the run's requested end
rows_after(m, T) ==
    {r \in source[m] :
        r > T /\ (config.end_timestamp = NoTime \/ r <= config.end_timestamp)}

paused_before(m) ==
    \E i \in 1..Len(import_state) :
        import_state[i].table_name = m /\ import_state[i].status = "paused"

\* C3: oldest_first, a table that was paused (at any poll, the first one
\* included) and then resumed to completion without a failed window has
\* every source row of its requested range in the destination.
C3_PauseResumeLosesNothing ==
    \A m \in Tables :
        (/\ config.import_direction = "oldest_first"
         /\ nerrors = 0
         /\ paused_before(m)
         /\ latest_state(import_state, m).status = "completed")
        => \A r \in requested_rows(m) : dest[m][r] >= 1

\* C4: newest_first, a table paused after at least one imported window and
\* then resumed to completion without a failed window has every source row
\* of its requested range in the destination, and the resumed invocation
\* fetched no row that an earlier invocation had already written.
C4_NewestFirstResume ==
    (/\ config.import_direction = "newest_first"
     /\ nerrors = 0
     /\ resuming
     /\ tables_to_resume[tbl.measurement].rows > 0
     /\ pc = "table_done"
     /\ table_result.status = "completed"
     /\ latest_state(import_state, tbl.measurement).status = "completed")
    => /\ \A r \in requested_rows(tbl.measurement) : dest[tbl.measurement][r] >= 1
       /\ ~tbl.requeried

\* C5: in write order, the rows_imported values of one table's checkpoint
\* records never decrease, pause and resume included.
C5_MonotonicRows ==
    \A i, j \in 1..Len(import_state) :
        (/\ i < j
         /\ import_state[i].table_name \in Tables
         /\ import_state[i].table_name = import_state[j].table_name)
        => import_state[i].rows_imported <= import_state[j].rows_imported

\* C6: a table paused with rows_imported = P, resumed and completed: its
\* 'completed' checkpoint carries P plus the rows written after the resume.
C6_RowAccounting ==
    (/\ resuming
     /\ pc = "table_done"
     /\ table_result.status = "completed"
     /\ latest_state(import_state, tbl.measurement).status = "completed")
    => LET m == tbl.measurement
           rec == latest_state(import_state, m)
       IN  rec.rows_imported =
               tables_to_resume[m].rows + (rows_in_dest(m) - tbl.dest_mark)

\* C7: the checkpoint written when the poll observes paused has status
\* paused, the rows written so far in this invocation, and as cursor the
\* largest row timestamp of the most recently fetched window (the loop
\* cursor when no rows have been fetched yet).
C7_PausedCheckpoint ==
    (pc = "table_done" /\ table_result.status = "paused")
    => LET m == tbl.measurement
           rec == latest_state(import_state, m)
       IN  /\ rec.status = "paused"
           /\ rec.rows_imported = rows_in_dest(m) - tbl.dest_mark
           /\ rec.paused_at_time =
                  IF tbl.result.fetched /\ tbl.result.times # {}
                  THEN Max(tbl.result.times)
                  ELSE tbl.current_time

\* rows_imported of the last in_progress checkpoint of table m written after
\* position mark of the log, 0 if there is none
last_progress_rows(log, m, mark) ==
    LET S == {i \in (mark + 1)..Len(log) :
                  log[i].table_name = m /\ log[i].status = "in_progress"}
    IN  IF S = {} THEN 0 ELSE log[Max(S)].rows_imported

\* C8: from the poll that observes canceled to the return, no window query
\* and no destination write is issued; the branch writes a 'cancelled'
\* checkpoint whose rows_imported is that of the invocation's last
\* in_progress checkpoint (0 without one) and returns status cancelled.
C8_CancelImmediate ==
    [][pc = "cancelled" =>
          /\ nqueries' = nqueries
          /\ nwrites' = nwrites
          /\ dest' = dest
          /\ pc' # pc =>
                LET rec == latest_state(import_state', tbl.measurement)
                IN  /\ pc' = "table_done"
                    /\ table_result'.status = "cancelled"
                    /\ rec.status = "cancelled"
                    /\ rec.rows_imported =
                           last_progress_rows(import_state, tbl.measurement,
                                              tbl.mark)
                    /\ table_result'.rows_imported = rec.rows_imported]_vars

C8_Witness ==
    /\ pc = "table_done"
    /\ table_result.status = "cancelled"
    /\ table_result.rows_imported > 0
    /\ latest_state(import_state, tbl.measurement).status = "cancelled"

\* C9: start imports the tables in enumeration order and returns at the
\* first table that comes back paused or cancelled, reporting that status:
\* while start runs, no earlier table is paused or cancelled and every
\* later table's latest checkpoint is still 'pending', also once it has
\* returned.
C9_StartStopsAtFirst ==
    (mode = "start" /\ pc # "none") =>
        /\ \A j \in 1..Len(measurements) :
               j > idx => latest_state(import_state, measurements[j]).status = "pending"
        /\ pc # "idle" =>
               \A j \in 1..Len(measurements) :
                   j < idx => latest_state(import_state, measurements[j]).status
                                  \notin {"paused", "cancelled"}
        /\ (pc = "idle" /\ idx <= Len(measurements) /\ report.op = "start") =>
               /\ report.status \in {"paused", "cancelled"}
               /\ report.on_table = measurements[idx]
               /\ latest_state(import_state, measurements[idx]).status = report.status

C9_Witness ==
    /\ mode = "start"
    /\ pc = "idle"
    /\ report.status = "paused"
    /\ report.on_table = measurements[1]
    /\ latest_state(import_state, measurements[1]).status = "paused"
    /\ latest_state(import_state, measurements[2]).status = "pending"

\* C10: once a pause request and a cancel request on the running run have
\* both returned and the cancel was acknowledged, the flag reads cancelled.
C10_RaceBenign ==
    (pausePc \in {"done", "rejected"} /\ cancelPc = "done" /\ resumes = 0)
    => get_import_pause_state = "cancelled"

\* the step is a dry-run start returning its plan
dry_run_step == report' # report /\ report'.status = "dry_run_plan"

\* a flag state in which pause_import must refuse
pause_invalid == get_import_pause_state \in {"not_found", "cancelled", "paused"}

\* a flag state in which cancel_import must refuse
cancel_invalid == get_import_pause_state \in {"not_found", "cancelled"}

\* a flag state in which resume_import must refuse
resume_invalid == get_import_pause_state \in {"not_found", "cancelled", "running"}

\* the step leaves the checkpoint store, the destination and the source
\* query count as they were
no_effect ==
    /\ UNCHANGED storeVars
    /\ dest' = dest
    /\ nqueries' = nqueries
    /\ nwrites' = nwrites

\* C11: a pause on a run that is not found, cancelled or already paused, a
\* cancel on a run that is not found or already cancelled, and a resume on a
\* run that is not found, cancelled or running each return an error and
\* write no flag record, no checkpoint, and send no source query.
C11_InvalidTransitionsRejected ==
    [][/\ pause_invalid =>
              /\ import_pause_state' # Append(import_pause_state, pause_record)
              /\ pausePc' # pausePc => (pausePc' = "rejected" /\ no_effect)
       /\ cancel_invalid =>
              /\ import_pause_state' # Append(import_pause_state, cancel_record)
              /\ cancelPc' # cancelPc => (cancelPc' = "rejected" /\ no_effect)
       /\ (resume_invalid /\ pc \in {"none", "idle"}) =>
              /\ ~(pc = "idle" /\ pc' = "next_table")
              /\ (report' # report /\ ~dry_run_step) =>
                     /\ report'.op = "resume"
                     /\ report'.status = "error"
                     /\ pc' = pc
                     /\ no_effect]_vars

C11_Witness ==
    /\ pausePc = "rejected"
    /\ cancelPc = "rejected"
    /\ report.op = "resume"
    /\ report.status = "error"
    /\ get_import_pause_state = "cancelled"
    /\ latest_state(import_state, "all").status = "cancelled"

\* the latest checkpoint of table m is a terminal one
terminal(m) == latest_state(import_state, m).status \in {"completed", "cancelled"}

\* C12: once a table's latest checkpoint is 'completed' or 'cancelled' no
\* further checkpoint is written for that table, and once the flag reads
\* cancelled (a cancel was acknowledged) it reads cancelled ever after.
C12_TerminalStates ==
    [][/\ \A m \in Tables :
              terminal(m) =>
                  latest_index(import_state', m) = latest_index(import_state, m)
       /\ (cancelPc' = "done" /\ cancelPc' # cancelPc) =>
              get_import_pause_state' = "cancelled"
       /\ get_import_pause_state = "cancelled" =>
              get_import_pause_state' = "cancelled"]_vars

C12_Witness ==
    /\ mode = "resume"
    /\ pc = "idle"
    /\ latest_state(import_state, "cpu").status = "completed"
    /\ latest_state(import_state, "mem").status = "cancelled"
    /\ get_import_pause_state = "cancelled"
    /\ pausePc = "rejected"
    /\ report.op = "resume"
    /\ orch.completed_tables = 1

\* the step is pause_import returning (its reply or its record shows)
pause_step ==
    \/ pausePc' # pausePc
    \/ import_pause_state' = Append(import_pause_state, pause_record)

\* the step is cancel_import returning
cancel_step ==
    \/ cancelPc' # cancelPc
    \/ import_pause_state' = Append(import_pause_state, cancel_record)

\* the step is resume_import up to its error return or its table loop
resume_step ==
    /\ pc \in {"none", "idle"}
    /\ \/ report' # report /\ ~dry_run_step
       \/ pc' = "next_table" /\ mode' = "resume"

\* C13: pause, resume and cancel are idempotent on the persisted state. A
\* request that was refused changed nothing, so repeating it is refused the
\* same way; a request that wrote leaves a state in which the same request
\* is refused: after a pause the flag does not read running, after a cancel
\* it reads cancelled, after a resume it reads running, and the import a
\* resume runs writes no flag record of its own before it returns.
C13_Idempotent ==
    [][/\ pause_step =>
              /\ ~pause_import_accepts'
              /\ ~pause_import_accepts => UNCHANGED storeVars
       /\ cancel_step =>
              /\ ~cancel_import_accepts'
              /\ ~cancel_import_accepts => UNCHANGED storeVars
       /\ resume_step =>
              \/ UNCHANGED storeVars
              \/ /\ get_import_pause_state' = "running"
                 /\ import_state' = import_state
       /\ pc \notin {"none", "idle"} =>
              import_pause_state' \in
                  {import_pause_state,
                   Append(import_pause_state, pause_record),
                   Append(import_pause_state, cancel_record)}]_vars

\* a second pause, a second cancel and a resume that wrote its record have
\* all been seen
C13_Witness ==
    /\ pausePc = "rejected"
    /\ cancelPc = "rejected"
    /\ resumes = 1
    /\ Len(import_pause_state) >= 4

\* C14: a dry-run start writes no configuration record, no flag record, no
\* checkpoint and no destination data, and returns the plan; the only start
\* that writes a flag record is the one that goes on to import.
C14_DryRunNoWrites ==
    [][/\ dry_run_step =>
              /\ UNCHANGED storeVars
              /\ dest' = dest
              /\ nwrites' = nwrites
              /\ pc' = pc
              /\ report'.op = "start"
       /\ (pc = "none" /\ import_pause_state' # import_pause_state) =>
              /\ pc' = "next_table"
              /\ report' = report]_vars

C14_Witness ==
    /\ report.status = "dry_run_plan"
    /\ import_config = <<>>
    /\ import_pause_state = <<>>
    /\ import_state = <<>>
    /\ rows_in_dest("cpu") = 0

\* c1 and c2 differ at most in their credentials
same_but_credentials(c1, c2) ==
    \A f \in DOMAIN c1 \ {"source_token"} : c1[f] = c2[f]

\* C15: the records of the checkpoint store do not depend on the
\* credentials: configurations that differ only in source_token are stored
\* as the same record, the stored record is the one any other token would
\* have produced, no stored record has a credential field, and a resumed
\* run works with the credentials of the resume request.
C15_CredentialsNotPersisted ==
    /\ \A c1, c2 \in Configs :
           same_but_credentials(c1, c2) =>
               save_import_config(c1) = save_import_config(c2)
    /\ \A i \in 1..Len(import_config) :
           /\ "source_token" \notin DOMAIN import_config[i]
           /\ \A t \in Tokens :
                  import_config[i] =
                      save_import_config([config EXCEPT !.source_token = t])
    /\ \A i \in 1..Len(import_state) :
           DOMAIN import_state[i] =
               {"table_name", "status", "rows_imported", "paused_at_time"}
    /\ \A i \in 1..Len(import_pause_state) :
           DOMAIN import_pause_state[i] = {"paused", "canceled"}
    /\ (mode = "resume" /\ pc # "idle") =>
           config.source_token = credentials.resume

C15_Witness ==
    /\ mode = "resume"
    /\ pc = "table_done"
    /\ credentials.start # credentials.resume
    /\ config.source_token = credentials.resume
    /\ Len(import_config) = 1
    /\ tbl.written # {}

\* the step is resume_incomplete_import's loop taking up its next table
resume_table_step == mode = "resume" /\ pc = "next_table" /\ idx <= Len(measurements)

\* C16: the resume loop handles each table by its latest checkpoint: a
\* 'completed' table is passed over without a query or a write; a 'paused'
\* or 'in_progress' table with a checkpoint timestamp is imported from that
\* timestamp plus one tick; one without a timestamp, and a 'pending' table,
\* are imported from the configured start.
C16_ResumeByCheckpoint ==
    [][(resume_table_step /\ pc' # "idle" /\ (idx' # idx \/ pc' # pc)) =>
          LET m == measurements[idx]
              rec == latest_state(import_state, m)
          IN  /\ rec.status = "completed" =>
                     /\ idx' = idx + 1
                     /\ pc' = "next_table"
                     /\ nqueries' = nqueries
                     /\ nwrites' = nwrites
                     /\ dest' = dest
                     /\ UNCHANGED storeVars
              /\ (rec.status \in {"paused", "in_progress"}
                    /\ rec.paused_at_time # NoTime) =>
                     /\ tbl'.measurement = m
                     /\ tbl'.user_start = rec.paused_at_time + MICROSECOND_OFFSET
              /\ (rec.status \in {"paused", "in_progress"}
                    /\ rec.paused_at_time = NoTime) =>
                     /\ tbl'.measurement = m
                     /\ tbl'.user_start = config.start_timestamp
              /\ rec.status = "pending" =>
                     /\ tbl'.measurement = m
                     /\ tbl'.user_start = config.start_timestamp]_vars

\* a resume that restarted a table left in_progress by a dead process, and
\* went on to import the pending table after it
C16_Witness ==
    /\ mode = "resume"
    /\ tables_to_resume["cpu"].kind = "restart"
    /\ latest_state(import_state, "cpu").status = "completed"
    /\ pc = "poll"
    /\ tbl.measurement = "mem"
    /\ tbl.user_start = config.start_timestamp

\* the step is a window whose destination write was attempted and failed
write_failed_step == nwrites' = nwrites + 1 /\ nerrors' = nerrors + 1

\* the window boundary the cursor moves to
far_edge(t) == IF direction > 0 THEN window_end(t) ELSE window_start(t)

\* the cursor value is at or beyond the far boundary of the table's range
at_far_boundary(t, cursor) ==
    IF direction > 0 THEN cursor >= t.actual_end ELSE cursor <= t.actual_start

\* C17: a failed destination write appends one error entry with the
\* window's time range, leaves rows_imported and the destination as they
\* were, writes no in_progress checkpoint, moves the cursor to the window
\* boundary, and at the far boundary the table still ends 'completed'.
C17_WriteFailureContinues ==
    [][write_failed_step =>
          LET m == tbl.measurement
          IN  /\ tbl'.errors =
                     Append(tbl.errors, <<window_start(tbl), window_end(tbl)>>)
              /\ tbl'.rows_imported = tbl.rows_imported
              /\ dest' = dest
              /\ tbl'.current_time = far_edge(tbl)
              /\ IF at_far_boundary(tbl, far_edge(tbl))
                 THEN /\ pc' = "table_done"
                      /\ table_result'.status = "completed"
                      /\ table_result'.errors = tbl'.errors
                      /\ table_result'.rows_imported = tbl.rows_imported
                      /\ import_state' =
                             write_import_state(import_state, m, "completed",
                                                tbl.rows_imported, NoTime)
                 ELSE /\ pc' = "poll"
                      /\ import_state' = import_state]_vars

\* a table that completed although the write of its last window failed
C17_Witness ==
    /\ pc = "table_done"
    /\ table_result.status = "completed"
    /\ Len(table_result.errors) = 1
    /\ tbl.result.fetched
    /\ tbl.result.times # {}
    /\ tbl.result.times \cap tbl.written = {}
    /\ latest_state(import_state, tbl.measurement).status = "completed"

\* the step is a window whose source query failed after its retries
query_failed_step == nerrors' = nerrors + 1 /\ nwrites' = nwrites

\* C18: a window whose query failed appends exactly one error entry with
\* the window's time range, writes nothing, moves the cursor to the window
\* boundary and goes back to the top of the loop: import_table neither
\* returns nor raises because of it.
C18_QueryFailureContinues ==
    [][query_failed_step =>
          /\ pc = "window"
          /\ tbl'.errors =
                 Append(tbl.errors, <<window_start(tbl), window_end(tbl)>>)
          /\ nqueries' = nqueries + 1
          /\ tbl'.rows_imported = tbl.rows_imported
          /\ dest' = dest
          /\ UNCHANGED storeVars
          /\ tbl'.current_time = far_edge(tbl)
          /\ pc' = "poll"
          /\ table_result' = table_result]_vars

\* a table with rows that completed after the query of a window failed and
\* the loop went on
C18_Witness ==
    /\ pc = "table_done"
    /\ table_result.status = "completed"
    /\ Len(table_result.errors) = 1
    /\ tbl.measurement = "cpu"
    /\ mode = "start"
    /\ source["cpu"] # {}
    /\ nqueries >= 2
    /\ nwrites = 0

\* a pause or cancel record is the latest flag record
signalled == get_import_pause_state \in {"paused", "cancelled"}

\* C19: the flag is read once before each window, so once a pause or cancel
\* record is the latest flag record the import writes at most one more
\* window: a destination write under the signal comes from the window that
\* had passed its poll, and while the signal stands no further window is
\* entered.
C19_BoundedLatency ==
    [][/\ (pc' = "window" /\ pc # "window") =>
              (pc = "poll" /\ ~signalled)
       /\ (signalled /\ (dest' # dest \/ nwrites' # nwrites)) =>
              /\ pc = "window"
              /\ pc' \in {"poll", "table_done"}
              /\ nwrites' = nwrites + 1
       /\ (signalled /\ signalled' /\ pc' = "window") => pc = "window"
       /\ (signalled /\ pc = "poll" /\ pc' # pc) =>
              pc' \in {"paused", "cancelled"}]_vars

\* a window was written after the cancel request's records, and the table
\* then returned cancelled
C19_Witness ==
    /\ pc = "table_done"
    /\ table_result.status = "cancelled"
    /\ \E i, j \in 1..Len(import_state) :
           /\ i < j
           /\ import_state[i].table_name = "all"
           /\ import_state[j].table_name = tbl.measurement
           /\ import_state[j].status = "in_progress"

\* C20: the windows of one import_table call do not overlap, so every row
\* the call has written was fetched, written and counted once: the counter
\* and the number of rows sent to the destination both equal the number of
\* distinct source rows written.
C20_WindowsDisjoint ==
    ((in_loop \/ pc = "table_done") /\ tbl.measurement \in Tables) =>
        /\ tbl.rows_imported = Cardinality(tbl.written)
        /\ rows_in_dest(tbl.measurement) - tbl.dest_mark = Cardinality(tbl.written)

\* C21: when import_table returns for a table without rows in the requested
\* range, the table's latest checkpoint is 'completed' with rows_imported 0.
C21_EmptyTableCompleted ==
    (/\ pc = "table_done"
     /\ tbl.actual_start = NoTime
     /\ table_result.status = "completed")
    => LET rec == latest_state(import_state, tbl.measurement)
       IN  /\ rec.status = "completed"
           /\ rec.rows_imported = 0

\* index of the checkpoint of the same table that precedes record i, 0 if
\* there is none
previous_index(log, i) ==
    LET S == {j \in 1..(i - 1) : log[j].table_name = log[i].table_name}
    IN  IF S = {} THEN 0 ELSE Max(S)

\* C22: in a table's checkpoint history every 'paused' or 'cancelled' record
\* directly follows an 'in_progress' record of that table.
C22_StoppedOnlyFromInProgress ==
    \A i \in 1..Len(import_state) :
        (/\ import_state[i].table_name \in Tables
         /\ import_state[i].status \in {"paused", "cancelled"})
        => /\ previous_index(import_state, i) # 0
           /\ import_state[previous_index(import_state, i)].status = "in_progress"

C24_WindowClamp ==
    (call.fn = "sample_data_density" /\ call.result # 0)
    => /\ 1 <= call.result
       /\ call.result <= 2635200

\* the computed width was outside the limits and has been clamped
C24_Witness ==
    /\ call.fn = "sample_data_density"
    /\ call.samples_len > 1
    /\ call.result = 2635200

\* the table of the scenario: one hour of rows at 10 rows/sec, batch 2000,
\* imported oldest first
one_hour_scenario ==
    /\ call.fn = "import_table"
    /\ call.span = 3600
    /\ call.rate = 10
    /\ call.target_batch_size = 2000
    /\ call.import_direction = "oldest_first"

\* C25: for the one-hour table the estimated window is 200 seconds and the
\* finished import has issued exactly 18 window queries.
C25_EighteenWindows ==
    (one_hour_scenario /\ call.step = "done")
    => /\ call.optimal_window_seconds = 200
       /\ call.queries = 18

\* the waits before the second, third, fourth and fifth attempt
retry_waits == <<1, 2, 4, 8>>

\* C26: one query makes at most 5 requests; every request failure, an HTTP
\* 4xx status included, consumes an attempt; the waits between attempts are
\* 1, 2, 4, 8 seconds and never exceed 16; a success on attempt k returns
\* after exactly k requests; the 5th failure propagates the error.
C26_RetryPolicy ==
    call.fn = "query_source_influxdb" =>
        /\ call.requests <= 5
        /\ call.retry_count = Len(call.failures)
        /\ call.waits = SubSeq(retry_waits, 1, Len(call.waits))
        /\ \A i \in 1..Len(call.waits) : call.waits[i] <= 16
        /\ call.step = "request" =>
               /\ call.requests = Len(call.failures)
               /\ Len(call.waits) = Len(call.failures)
               /\ Len(call.failures) < 5
        /\ call.step = "returned" =>
               /\ call.requests = Len(call.failures) + 1
               /\ Len(call.waits) = Len(call.failures)
        /\ (call.step = "raised" /\ call.error = "RequestException") =>
               /\ call.requests = 5
               /\ Len(call.failures) = 5
               /\ call.waits = retry_waits
        /\ Len(call.failures) = 5 =>
               (call.step = "raised" /\ call.error = "RequestException")

\* a query answered at the fifth attempt, an HTTP 4xx among its failures
C26_Witness ==
    /\ call.fn = "query_source_influxdb"
    /\ call.step = "returned"
    /\ call.requests = 5
    /\ \E i \in 1..Len(call.failures) : call.failures[i] = "http_4xx"

\* C27: for version 2 or 3 a query without a token raises the
\* configuration error with no request sent and no retry; with a token the
\* Authorization header is 'Bearer <token>' for version 3 and
\* 'Token <token>' for version 2.
C27_TokenRequired ==
    (call.fn = "query_source_influxdb" /\ call.step # "auth"
        /\ call.influxdb_version \in {2, 3}) =>
        IF call.source_token = NoString
        THEN /\ call.step = "raised"
             /\ call.error = "ValueError"
             /\ call.requests = 0
             /\ call.retry_count = 0
             /\ call.waits = <<>>
        ELSE /\ call.error # "ValueError"
             /\ call.headers.credentials = call.source_token
             /\ call.headers.scheme =
                    (IF call.influxdb_version = 3 THEN "Bearer" ELSE "Token")

\* a version 3 query without a token has been refused
C27_Witness ==
    /\ call.fn = "query_source_influxdb"
    /\ call.influxdb_version = 3
    /\ call.source_token = NoString
    /\ call.step = "raised"

\* index of column col in the result columns, 0 if it is not among them
column_index(columns, col) ==
    IF col \in column_set(columns)
    THEN CHOOSE i \in 1..Len(columns) : columns[i] = col
    ELSE 0

\* C28: a non-null value of a field declared integer whose actual type is
\* string, float or boolean is emitted, unchanged, under the name
\* {field}_{actualType} and not under {field}.
C28_MismatchFallbackName ==
    (/\ call.fn = "convert_influxql_to_line_protocol"
     /\ call.field_types[<<"temp">>] = "integer")
    => \A k \in 1..Len(call.lines) :
          LET value == call.values[k][column_index(call.columns, <<"temp">>)]
          IN  value.t \in {"str", "float", "bool"}
              => /\ \E f \in call.lines[k].fields :
                       /\ f.name = with_suffix(<<"temp">>, get_actual_influx_type(value))
                       /\ f.value = value
                 /\ \A f \in call.lines[k].fields : f.name # <<"temp">>

\* C29: with a tag and a field both named room, every transcoded row whose
\* values are non-null (the field value of the declared type) carries the
\* tag room_tag and the field room, with or without the companion column.
C29_CollisionKeepsBoth ==
    (/\ call.fn = "convert_influxql_to_line_protocol"
     /\ <<"room">> \in call.tag_keys
     /\ <<"room">> \in DOMAIN call.field_types)
    => \A k \in 1..Len(call.lines) :
          LET row == call.values[k]
              value == row[column_index(call.columns, <<"room">>)]
          IN  (/\ \A i \in 1..Len(row) : row[i] # PyNone
               /\ check_influx_type_to_python_type(call.field_types[<<"room">>], value))
              => /\ \E t \in call.lines[k].tags : t.name = with_suffix(<<"room">>, "tag")
                 /\ \E f \in call.lines[k].fields :
                       /\ f.name = <<"room">>
                       /\ f.value = value
                 /\ (<<"room", "1">> \in column_set(call.columns)) =>
                       \E t \in call.lines[k].tags :
                           /\ t.name = with_suffix(<<"room">>, "tag")
                           /\ t.value = row[column_index(call.columns, <<"room", "1">>)].s

\* the sources of a load_config call, lowest priority first, and the value
\* each gives a key (Unset if it does not set it); the configuration file
\* is a source when one was asked for and exists
priority == <<"environ", "args", "file", "body">>
source_value(c, n, k) ==
    LET v == IF priority[n] = "environ"
                THEN (IF k \in EnvKeys THEN c.environ[k] ELSE Unset)
             ELSE IF priority[n] = "args" THEN c.args[k]
             ELSE IF priority[n] = "file"
                THEN (IF file_requested(c.args, c.body_args) /\ c.file_exists
                      THEN c.file_config[k] ELSE Unset)
             ELSE c.body_args[k]
    IN  IF v = CfgNone THEN Unset ELSE v
setters(c, k) == {n \in 1..Len(priority) : source_value(c, n, k) # Unset}

\* the value as ImportConfig holds it: a dot-separated table_filter is a list
as_held(k, v) ==
    IF k = "table_filter" /\ v.t = "str" THEN Cfg("list", "", split_table_filter(v.s)) ELSE v

\* C30: in the ImportConfig load_config returns, every key that more than
\* one of environment, args, config file and request body set (non-null)
\* has the value of the highest-priority one among them.
C30_MergePriority ==
    (call.fn = "load_config" /\ call.step = "returned")
    => \A k \in ConfigKeys :
          Cardinality(setters(call, k)) > 1
          => call.config[k] = as_held(k, source_value(call, Max(setters(call, k)), k))

\* a returned configuration whose database name all four sources set, and
\* whose batch size the file sets above args
C30_Witness ==
    /\ call.fn = "load_config"
    /\ call.step = "returned"
    /\ Cardinality(setters(call, "source_database")) = 4
    /\ setters(call, "target_batch_size") = {2, 3}
    /\ call.config["target_batch_size"] = Cfg("int", "1000", <<>>)

\* C31: only the integers 1, 2 and 3 pass as influxdb_version; any other
\* value (0, 4, a string such as '3') gets 'Unsupported influxdb_version:
\* <value>', a missing version and an empty source_url their own errors.
C31_OnlyIntegerVersions ==
    (call.fn = "_validate_source_params" /\ call.step = "returned")
    => LET url_given == call.source_url \notin {PyNone, Py("str", ""), Py("str", " ")}
           v == call.influxdb_version
       IN  /\ ~url_given => call.result.error = "source_url is required"
           /\ (url_given /\ v = PyNone)
                 => call.result.error = "influxdb_version is required"
           /\ (url_given /\ v # PyNone) =>
                 IF v.t = "int" /\ v.s \in {"1", "2", "3"}
                 THEN call.result.error = ""
                 ELSE /\ call.result.error = "Unsupported influxdb_version"
                      /\ call.result.value = v.s

\* C32: with the flag never paused or cancelled, import_table returns for
\* every finite range and every pattern of failing window queries, also
\* when the query of the window that reaches the far boundary keeps failing.
C32_LoopReturns ==
    (call.fn = "import_table" /\ call.step = "poll") ~> (call.step = "returned")

\* C33: at most one import loop is active per run: for every interleaving
\* of start, pause and resume requests there is no state in which two
\* invocations are both fetching or writing windows of the run.
C33_OneLoopPerRun ==
    ~(/\ call.fn = "resume_import"
      /\ call.step \in {"poll", "window"}
      /\ pc \in {"poll", "window"})

\* a resume request is handled while no invocation of the run is active
resume_request_step ==
    /\ pc = "idle"
    /\ \/ report' # report /\ report'.op = "resume"
       \/ resumes' # resumes

\* the process died during a table: its latest checkpoint is in_progress
\* without a checkpoint timestamp and the flag still says running
crashed_in_progress(m) ==
    /\ pc = "idle"
    /\ latest_state(import_state, m).status = "in_progress"
    /\ latest_state(import_state, m).paused_at_time = NoTime
    /\ get_import_pause_state = "running"

\* C34: after the importing process died while a table was in_progress
\* (flag still paused = false, canceled = false), a resume request is
\* accepted and restarts that table from the beginning of the range.
C34_CrashRecovery ==
    [][\A m \in Tables :
          (crashed_in_progress(m) /\ resume_request_step) =>
              /\ pc' = "next_table"
              /\ mode' = "resume"
              /\ tables_to_resume'[m].kind = "restart"]_vars

\* C35: a resumed run stops like a started run: when a table returns
\* paused or cancelled during resume, the run ends there with a report of
\* that status; no later table is started and no checkpoint is written for
\* a later table.
C35_ResumeStopsLikeStart ==
    [][(/\ mode = "resume"
        /\ pc = "table_done"
        /\ table_result.status \in {"paused", "cancelled"}
        /\ pc' # pc) =>
            /\ pc' = "idle"
            /\ report'.op = "resume"
            /\ report'.status = table_result.status
            /\ import_state' = import_state]_vars

\* C36: a resume request that returns status error leaves the persisted
\* flag as it was: the latest flag record is the same as before the request.
C36_FailedResumeKeepsFlag ==
    [][(/\ resume_request_step
        /\ report'.op = "resume"
        /\ report'.status = "error") =>
            import_pause_state' = import_pause_state]_vars

\* the rows of the source inside the requested range of the run
rows_in_range(m) ==
    {r \in source[m] :
        /\ (config.start_timestamp = NoTime \/ r >= config.start_timestamp)
        /\ (config.end_timestamp = NoTime \/ r <= config.end_timestamp)}

\* C37: a table is reported completed with rows_imported 0 and an empty
\* error list only if the source has no rows in the requested range; a
\* boundary query that failed shows in the table's result.
C37_EmptyResultMeansNoRows ==
    (/\ pc = "table_done"
     /\ mode = "start"
     /\ table_result.status = "completed"
     /\ table_result.rows_imported = 0
     /\ table_result.errors = <<>>)
    => rows_in_range(table_result.measurement) = {}

\* C38: a failed field-key or tag-key query is recorded for its table and
\* the remaining tables are still imported: start does not end with an
\* error result that leaves later tables 'pending'.
C38_SchemaFailureContinues ==
    (pc = "idle" /\ report.op = "start" /\ report.status = "error")
    => \A i, j \in 1..Len(measurements) :
          (measurements[i] = report.on_table /\ j > i)
              => latest_state(import_state, measurements[j]).status # "pending"

\* C39: a pause request on a run whose every table's latest checkpoint is
\* 'completed' is rejected and writes no flag record, so the status of the
\* run keeps reporting overall_status completed (until it is cancelled).
C39_NoPauseWhenFinished ==
    [][(/\ pc = "idle"
        /\ \A m \in Tables : latest_state(import_state, m).status = "completed"
        /\ overall_status = "completed") =>
            /\ import_pause_state' # Append(import_pause_state, pause_record)
            /\ overall_status' \in {"completed", "cancelled"}]_vars

====
